---- MODULE Spec2Model ----
(***************************************************************************)
(* GHOST-wire: the conversation state machine (core/state_machine.py) and  *)
(* the brain router's decision (brains/router.py, brains/reflex_brain.py). *)
(***************************************************************************)
EXTENDS Integers, Sequences, FiniteSets, TLC

(***************************************************************************)
(* Bounds of the model.                                                    *)
(***************************************************************************)
\* state machines are constructed with max_transitions in 1..MaxCeiling
MaxCeiling == 3
\* total number of register_hook calls explored
MaxHooks == 2
\* largest reading of the wall clock (datetime.now())
MaxClock == 1

\* successful transitions explored: one more than the largest ceiling
CountCap == MaxCeiling + 1

(***************************************************************************)
(* class State(Enum)                                                       *)
(***************************************************************************)
IDLE == "idle"
INITIAL_CONTACT == "initial_contact"
TRUST_BUILDING == "trust_building"
SUSPICION_AROUSAL == "suspicion_arousal"
EXTRACTION == "extraction"
TERMINATION == "termination"

State == {IDLE, INITIAL_CONTACT, TRUST_BUILDING, SUSPICION_AROUSAL, EXTRACTION, TERMINATION}

\* ConversationStateMachine.TRANSITIONS (the lists, as sets: only membership is used)
TRANSITIONS_reopen ==
    [s \in State |->
        CASE s = IDLE -> {INITIAL_CONTACT}
          [] s = INITIAL_CONTACT -> {TRUST_BUILDING, SUSPICION_AROUSAL, TERMINATION}
          [] s = TRUST_BUILDING -> {SUSPICION_AROUSAL, EXTRACTION, TERMINATION}
          [] s = SUSPICION_AROUSAL -> {TRUST_BUILDING, EXTRACTION, TERMINATION}
          [] s = EXTRACTION -> {EXTRACTION, TERMINATION}
          [] OTHER -> {INITIAL_CONTACT}]

TRANSITIONS ==
    [s \in State |->
        CASE s = IDLE -> {INITIAL_CONTACT}
          [] s = INITIAL_CONTACT -> {TRUST_BUILDING, SUSPICION_AROUSAL, TERMINATION}
          [] s = TRUST_BUILDING -> {SUSPICION_AROUSAL, EXTRACTION, TERMINATION}
          [] s = SUSPICION_AROUSAL -> {TRUST_BUILDING, EXTRACTION, TERMINATION}
          [] s = EXTRACTION -> {EXTRACTION, TERMINATION}
          [] OTHER -> {}]

VARIABLES
    current_state,      \* StateContext.current_state
    previous_states,    \* StateContext.previous_states
    state_entry_time,   \* StateContext.state_entry_time
    transition_count,   \* ConversationStateMachine.transition_count
    max_transitions,    \* ConversationStateMachine.max_transitions
    entry_hooks,        \* ConversationStateMachine._entry_hooks
    exit_hooks,         \* ConversationStateMachine._exit_hooks
    hooks_registered,   \* number of callbacks registered so far (callback identity)
    now,                \* the wall clock read by datetime.now()
    lastCall,           \* the last call made on the state machine and what it returned
    message,            \* the message handed to BrainRouter._decide_brain
    decision,           \* the RoutingDecision it returned
    routed,             \* what BrainRouter.route did with the message and returned
    cortex_history,     \* CortexBrain.conversation_history of the session
    log_files,          \* the lines of each audit_YYYYMM.log file
    file_exists,        \* the audit files that exist in the log directory
    chain_hash,         \* AuditLogger.chain_hash
    current_log_file,   \* AuditLogger.current_log_file
    sha256,             \* the inputs hashed so far; a digest is a position in it
    lastAudit,          \* the last call made on the audit logger and its outcome
    tampered,           \* the alteration made to a stored entry, if any
    log_events,         \* number of log_event calls so far (the clock of utcnow)
    restarts,           \* number of times the logger was re-created
    called_since_restart, \* log_event was called on the present logger
    last_persisted,     \* chain_hash of the most recently persisted entry
    extracted_iocs,     \* ExtractionEngine.extracted_iocs
    ioc_history,        \* every ExtractedIOC the engine has returned, in order
    fed,                \* the match strings found so far, with the number of calls
    lastExtract,        \* the last _extract_iocs call and what it returned
    extract_calls,      \* number of _extract_iocs calls so far
    violation_history,  \* ConstitutionalAI.violation_history
    lastGuard,          \* the last call of a validator and what it returned
    sessions,           \* GhostWireEngine.sessions, in creation order
    message_count,      \* ConversationSession.message_count
    created_at,         \* ConversationSession.created_at
    extraction_data,    \* StateContext.extraction_data: its truthy keys
    engine_pc,          \* where the engine call in progress stands
    lastEngine,         \* the engine call in progress or last completed
    suspended,          \* the get_response calls suspended in the language model call
    ollama_available,   \* LocalLLMClient._ollama_available
    lastTactics         \* the last _extract_tactics call and what it returned

fsmVars == <<current_state, previous_states, state_entry_time, transition_count>>
hookVars == <<entry_hooks, exit_hooks, hooks_registered>>
routerVars == <<message, decision, routed, cortex_history>>
extractVars == <<extracted_iocs, ioc_history, fed, lastExtract, extract_calls>>
guardVars == <<violation_history, lastGuard>>
engineVars == <<sessions, message_count, created_at, extraction_data, engine_pc,
                lastEngine>>
clientVars == <<suspended, ollama_available>>
tacticVars == <<lastTactics>>
serviceVars == <<extractVars, guardVars, engineVars, clientVars, tacticVars>>
sessionVars == <<fsmVars, max_transitions, hookVars, now, lastCall, routerVars>>
auditVars == <<log_files, file_exists, chain_hash, current_log_file, sha256, lastAudit,
               tampered, log_events, restarts, called_since_restart, last_persisted>>
vars == <<current_state, previous_states, state_entry_time, transition_count,
          max_transitions, entry_hooks, exit_hooks, hooks_registered, now,
          lastCall, message, decision, routed, cortex_history, log_files,
          file_exists, chain_hash, current_log_file, sha256, lastAudit, tampered,
          log_events, restarts, called_since_restart, last_persisted,
          extracted_iocs, ioc_history, fed, lastExtract, extract_calls,
          violation_history, lastGuard, sessions, message_count, created_at,
          extraction_data, engine_pc, lastEngine, suspended, ollama_available,
          lastTactics>>

HookIds == 1..MaxHooks
\* the phases hooks are registered on: the ones of the session's handlers
\* (_setup_state_handlers), one with a self-loop and the terminal one
HookPhases == {EXTRACTION, TERMINATION}
NoHooks == [s \in State |-> <<>>]
Range(f) == {f[i] : i \in DOMAIN f}

(***************************************************************************)
(* ConversationStateMachine queries                                        *)
(***************************************************************************)
get_current_state == current_state

can_transition_no_ceiling(target_state) ==
    target_state \in TRANSITIONS[current_state]

can_transition_table_first(target_state) ==
    /\ target_state \in TRANSITIONS[current_state]
    /\ transition_count < max_transitions

can_transition(target_state) ==
    IF transition_count >= max_transitions
    THEN target_state = TERMINATION
    ELSE target_state \in TRANSITIONS[current_state]

should_extract_always == TRUE

should_extract_with_trust ==
    current_state \in {TRUST_BUILDING, SUSPICION_AROUSAL, EXTRACTION}

should_extract ==
    current_state \in {SUSPICION_AROUSAL, EXTRACTION}

is_terminal == current_state = TERMINATION

(***************************************************************************)
(* The record of a call: what was asked, what came back, the state the     *)
(* call started from and the hook invocations it made, in order.           *)
(***************************************************************************)
CallRecord(op, target, ret, trace) ==
    [op |-> op, target |-> target, ret |-> ret, trace |-> trace,
     pre_state |-> current_state, pre_history |-> previous_states,
     pre_count |-> transition_count, pre_entry_time |-> state_entry_time]

NoCall ==
    [op |-> "none", target |-> IDLE, ret |-> FALSE, trace |-> <<>>,
     pre_state |-> IDLE, pre_history |-> <<>>, pre_count |-> 0, pre_entry_time |-> 0]

\* one hook invocation: the hook sees ctx.current_state; it returns or raises
HookEvent(kind, hook, observed, raising) ==
    [kind |-> kind, hook |-> hook, observed |-> observed, raised |-> hook \in raising]

\* for hook in hooks: try: hook(ctx) except Exception: logger.error(...)
RunHooks_abort_on_raise(kind, hooks, observed, raising) ==
    LET bad == {i \in 1..Len(hooks) : hooks[i] \in raising}
        last == IF bad = {} THEN Len(hooks)
                ELSE CHOOSE i \in bad : \A j \in bad : i <= j
    IN [i \in 1..last |-> HookEvent(kind, hooks[i], observed, raising)]

RunHooks_reversed(kind, hooks, observed, raising) ==
    [i \in 1..Len(hooks) |-> HookEvent(kind, hooks[Len(hooks) + 1 - i], observed, raising)]

RunHooks(kind, hooks, observed, raising) ==
    [i \in 1..Len(hooks) |-> HookEvent(kind, hooks[i], observed, raising)]

PhaseUpdate(old_state, target_state) ==
    [kind |-> "update", hook |-> 0, observed |-> target_state, raised |-> FALSE]

\* the hooks a successful transition to target_state invokes
HooksInvoked(target_state) ==
    Range(exit_hooks[current_state]) \cup Range(entry_hooks[target_state])

(***************************************************************************)
(* ConversationStateMachine.transition, with StateContext.transition_to    *)
(***************************************************************************)
TransitionBody_exit_hooks_first(op, target_state, raising) ==
    IF ~can_transition(target_state)
    THEN /\ UNCHANGED <<current_state, previous_states, transition_count>>
         /\ state_entry_time' = now
         /\ lastCall' = CallRecord(op, target_state, FALSE,
                RunHooks("exit", exit_hooks[current_state], current_state, raising))
    ELSE /\ previous_states' = Append(previous_states, current_state)
         /\ current_state' = target_state
         /\ state_entry_time' = now
         /\ transition_count' = transition_count + 1
         /\ lastCall' = CallRecord(op, target_state, TRUE,
                RunHooks("exit", exit_hooks[current_state], current_state, raising)
                \o <<PhaseUpdate(current_state, target_state)>>
                \o RunHooks("entry", entry_hooks[target_state], target_state, raising))

TransitionBody_history_target(op, target_state, raising) ==
    IF ~can_transition(target_state)
    THEN /\ UNCHANGED fsmVars
         /\ lastCall' = CallRecord(op, target_state, FALSE, <<>>)
    ELSE /\ previous_states' = Append(previous_states, target_state)
         /\ current_state' = target_state
         /\ state_entry_time' = now
         /\ transition_count' = transition_count + 1
         /\ lastCall' = CallRecord(op, target_state, TRUE,
                RunHooks("exit", exit_hooks[current_state], current_state, raising)
                \o <<PhaseUpdate(current_state, target_state)>>
                \o RunHooks("entry", entry_hooks[target_state], target_state, raising))

TransitionBody(op, target_state, raising) ==
    IF ~can_transition(target_state)
    THEN /\ UNCHANGED fsmVars
         /\ lastCall' = CallRecord(op, target_state, FALSE, <<>>)
    ELSE /\ previous_states' = Append(previous_states, current_state)
         /\ current_state' = target_state
         /\ state_entry_time' = now
         /\ transition_count' = transition_count + 1
         /\ lastCall' = CallRecord(op, target_state, TRUE,
                RunHooks("exit", exit_hooks[current_state], current_state, raising)
                \o <<PhaseUpdate(current_state, target_state)>>
                \o RunHooks("entry", entry_hooks[target_state], target_state, raising))

transition(target_state) ==
    /\ transition_count < CountCap
    /\ \E raising \in SUBSET HooksInvoked(target_state) :
          TransitionBody("transition", target_state, raising)
    /\ UNCHANGED <<max_transitions, hookVars, now, routerVars, auditVars, serviceVars>>

\* ConversationStateMachine.force_termination
force_termination ==
    /\ transition_count < CountCap
    /\ IF ~is_terminal
       THEN \E raising \in SUBSET HooksInvoked(TERMINATION) :
               TransitionBody("force_termination", TERMINATION, raising)
       ELSE /\ UNCHANGED fsmVars
            /\ lastCall' = CallRecord("force_termination", TERMINATION, FALSE, <<>>)
    /\ UNCHANGED <<max_transitions, hookVars, now, routerVars, auditVars, serviceVars>>

\* ConversationStateMachine.register_hook
register_hook(hook_type, state) ==
    /\ hooks_registered < MaxHooks
    /\ hooks_registered' = IF hook_type \in {"entry", "exit"}
                            THEN hooks_registered + 1 ELSE hooks_registered
    /\ entry_hooks' = IF hook_type = "entry"
                      THEN [entry_hooks EXCEPT ![state] = Append(@, hooks_registered + 1)]
                      ELSE entry_hooks
    /\ exit_hooks' = IF hook_type # "entry" /\ hook_type = "exit"  \* elif
                     THEN [exit_hooks EXCEPT ![state] = Append(@, hooks_registered + 1)]
                     ELSE exit_hooks
    /\ lastCall' = CallRecord("register_hook", state, FALSE, <<>>)
    /\ UNCHANGED <<fsmVars, max_transitions, now, routerVars, auditVars, serviceVars>>

\* a caller asks should_extract()
call_should_extract ==
    /\ lastCall' = CallRecord("should_extract", current_state, should_extract, <<>>)
    /\ UNCHANGED <<fsmVars, max_transitions, hookVars, now, routerVars, auditVars, serviceVars>>

\* time passes between calls
Tick ==
    /\ now < MaxClock
    /\ now' = now + 1
    /\ lastCall' = CallRecord("tick", current_state, FALSE, <<>>)
    /\ UNCHANGED <<fsmVars, max_transitions, hookVars, routerVars, auditVars, serviceVars>>

(***************************************************************************)
(* AuditLogger (src/security/audit_logger.py)                              *)
(*                                                                         *)
(* A hash is a position in the table sha256 of everything hashed so far:   *)
(* equal inputs give equal digests and different inputs different ones.    *)
(* None is 0; a hash field holding text that is no digest at all is -1.    *)
(* The payloads the engine logs are dictionaries with string keys and      *)
(* string, integer or null values, which json.loads(json.dumps(x)) returns *)
(* unchanged, so a line of the file is the record that was written.        *)
(***************************************************************************)
\* bounds of the audit model: log_event calls, later months, re-creations
MaxAppends == 3
MaxMonth == 1
MaxRestarts == 2

None == 0
Garbage == -1

\* the audit_YYYYMM.log files of the log directory, in glob's sorted order
Months == 0..MaxMonth

\* the events GhostWireEngine logs, for two conversations
Events ==
    { [event_type |-> "session_created", data |-> "s1"],
      [event_type |-> "message_exchanged", data |-> "s2"] }

\* open(current_log_file, 'a') followed by write: it appends the line; or open
\* raises; or the file is opened (and created) and the write raises
WriteOutcomes == {"ok", "open_fails", "write_fails"}

\* the string json.dumps(entry, sort_keys=True) hashed for an entry
EntryPreimage(timestamp, event_type, data, previous_hash) ==
    [kind |-> "entry", timestamp |-> timestamp, event_type |-> event_type,
     data |-> data, previous_hash |-> previous_hash, left |-> None, right |-> None]

\* the string hashed for the chain: "entry_hash:chain_hash" (right = None: entry_hash alone)
ChainPreimage(left, right) ==
    [kind |-> "chain", timestamp |-> 0, event_type |-> "", data |-> "",
     previous_hash |-> None, left |-> left, right |-> right]

\* hashlib.sha256(x).hexdigest() given the inputs hashed so far
Digest(table, x) ==
    IF \E i \in DOMAIN table : table[i] = x
    THEN CHOOSE i \in DOMAIN table : table[i] = x
    ELSE Len(table) + 1

Learn(table, x) ==
    IF \E i \in DOMAIN table : table[i] = x THEN table ELSE Append(table, x)

chain_input_unlinked(entry_hash, chain) ==
    ChainPreimage(entry_hash, None)

\* log_event, lines 69-72: `if self.chain_hash` is false for None
chain_input(entry_hash, chain) ==
    IF chain # None THEN ChainPreimage(entry_hash, chain)
                    ELSE ChainPreimage(entry_hash, None)

log_entry_previous_hash_after_update(timestamp, event, chain, table) ==
    LET pre == EntryPreimage(timestamp, event.event_type, event.data, chain)
        entry_hash == Digest(table, pre)
        t1 == Learn(table, pre)
        new_chain == Digest(t1, chain_input(entry_hash, chain))
    IN [timestamp |-> timestamp, event_type |-> event.event_type, data |-> event.data,
        previous_hash |-> new_chain, entry_hash |-> entry_hash, chain_hash |-> new_chain]

\* log_event, lines 55-77: the entry with both hashes added
log_entry(timestamp, event, chain, table) ==
    LET pre == EntryPreimage(timestamp, event.event_type, event.data, chain)
        entry_hash == Digest(table, pre)
        t1 == Learn(table, pre)
        new_chain == Digest(t1, chain_input(entry_hash, chain))
    IN [timestamp |-> timestamp, event_type |-> event.event_type, data |-> event.data,
        previous_hash |-> chain, entry_hash |-> entry_hash, chain_hash |-> new_chain]

\* the table after log_event's two sha256 calls
log_table(timestamp, event, chain, table) ==
    LET pre == EntryPreimage(timestamp, event.event_type, event.data, chain)
        t1 == Learn(table, pre)
    IN Learn(t1, chain_input(Digest(table, pre), chain))

VerifyResult(ok, line) == [ok |-> ok, line |-> line]

RECURSIVE verify_lines_zero_based(_, _, _, _)
verify_lines_zero_based(lines, line_num, previous_hash, table) ==
    IF line_num > Len(lines) THEN VerifyResult(TRUE, 0)
    ELSE LET entry == lines[line_num]
             stored_previous == entry.previous_hash
             calc_entry_hash ==
                 Digest(table, EntryPreimage(entry.timestamp, entry.event_type,
                                             entry.data, stored_previous))
         IN IF previous_hash # None /\ stored_previous # previous_hash
            THEN VerifyResult(FALSE, line_num - 1)
            ELSE IF calc_entry_hash # entry.entry_hash
            THEN VerifyResult(FALSE, line_num - 1)
            ELSE verify_lines_zero_based(lines, line_num + 1, entry.chain_hash, table)

\* verify_chain's loop, lines 95-130: ok and the line number it logs on failure
RECURSIVE verify_lines(_, _, _, _)
verify_lines(lines, line_num, previous_hash, table) ==
    IF line_num > Len(lines) THEN VerifyResult(TRUE, 0)
    ELSE LET entry == lines[line_num]
             stored_previous == entry.previous_hash
             calc_entry_hash ==
                 Digest(table, EntryPreimage(entry.timestamp, entry.event_type,
                                             entry.data, stored_previous))
         IN IF previous_hash # None /\ stored_previous # previous_hash
            THEN VerifyResult(FALSE, line_num)
            ELSE IF calc_entry_hash # entry.entry_hash
            THEN VerifyResult(FALSE, line_num)
            ELSE verify_lines(lines, line_num + 1, entry.chain_hash, table)

\* verify_chain(log_file), lines 85-130: a missing file verifies
verify_chain(log_file) ==
    IF log_file \notin file_exists THEN VerifyResult(TRUE, 0)
    ELSE verify_lines(log_files[log_file], 1, None, sha256)

\* _load_chain_state, lines 36-48: the chain_hash of the last line of the last
\* file in sorted order; None when there is no file or that file is empty
load_chain_state(exists, files) ==
    IF exists = {} THEN None
    ELSE LET last == CHOOSE f \in exists : \A g \in exists : g <= f
         IN IF files[last] = <<>> THEN None
            ELSE files[last][Len(files[last])].chain_hash

AuditCall(op, outcome, file, ret, line, pre_chain, pre_persisted, first) ==
    [op |-> op, outcome |-> outcome, file |-> file, ret |-> ret, line |-> line,
     pre_chain |-> pre_chain, pre_persisted |-> pre_persisted,
     first_after_restart |-> first]
NoAuditCall == AuditCall("none", "none", 0, None, 0, None, None, FALSE)

Tamper(file, line, field, was_valid) ==
    [file |-> file, line |-> line, field |-> field, was_valid |-> was_valid]
NoTamper == Tamper(0, 0, "none", FALSE)

\* AuditLogger.__init__ on an empty log directory
AuditInit ==
    /\ log_files = [f \in Months |-> <<>>]
    /\ file_exists = {}
    /\ chain_hash = None
    /\ current_log_file = 0
    /\ sha256 = <<>>
    /\ lastAudit = NoAuditCall
    /\ tampered = NoTamper
    /\ log_events = 0
    /\ restarts = 0
    /\ called_since_restart = FALSE
    /\ last_persisted = None


(***************************************************************************)
(* ExtractionEngine (src/extraction/patterns.py)                           *)
(*                                                                         *)
(* A string is a record of its form and its body, so that lower(), the     *)
(* digit count of _clean_ioc and the normalised value are computed from    *)
(* the string and not assumed.  Phone forms of the number 9876543210:      *)
(*   "national" 9876543210, "plus91" +919876543210, "trunk0" 09876543210,  *)
(*   "cc91" 919876543210.  UPI forms: "lower" and "upper" case.            *)
(***************************************************************************)
MaxExtractions == 2

Str(kind, form, body) == [kind |-> kind, form |-> form, body |-> body]

PhoneNumber == "9876543210"
UpiIds == {"prizewinner@upi", "a@upi"}

\* the indicators a message can carry
Tokens ==
    {Str("phone", form, PhoneNumber) : form \in {"national", "plus91", "trunk0"}}
    \cup {Str("upi", form, body) : form \in {"lower", "upper"}, body \in UpiIds}

\* a text carries one indicator, once or twice
Texts == {<<t>> : t \in Tokens} \cup {<<t, t>> : t \in Tokens}

Conversations == {"c1", "c2"}

\* ExtractionEngine.PATTERNS, in the order of the dictionary (the patterns that
\* match none of the tokens are left out)
IocPatternOrder == <<"phone_india", "phone_international", "upi_id", "bank_account">>

IocPatternType ==
    [phone_india |-> "phone", phone_international |-> "phone", upi_id |-> "upi",
     bank_account |-> "bank_account"]

\* config["regex"].findall(text) for a text that is one token: the strings matched
findall(pattern_name, token) ==
    CASE pattern_name = "phone_india" /\ token.kind = "phone" -> <<token>>
      [] pattern_name = "phone_international" /\ token.kind = "phone"
            /\ token.form = "plus91" -> <<token>>
      [] pattern_name = "upi_id" /\ token.kind = "upi" -> <<token>>
      [] pattern_name = "bank_account" /\ token.kind = "phone" ->
            IF token.form = "plus91"
            THEN <<Str("phone", "cc91", token.body)>>
            ELSE <<token>>
      [] OTHER -> <<>>

\* str.lower()
lower(str) ==
    IF str.kind = "upi" THEN [str EXCEPT !.form = "lower"] ELSE str

\* hashlib.md5(x).hexdigest(): different strings have different digests
md5(str) == [md5 |-> str]

\* _extract_iocs, line 165: the key is made from the matched text
dedup_key(ioc_type, match_str) ==
    md5(lower(match_str))

\* len(re.sub(r'\D', '', value)) and digits.startswith('91')
Digits(str) ==
    CASE str.form = "national" -> [count |-> 10, starts91 |-> FALSE]
      [] str.form = "trunk0" -> [count |-> 11, starts91 |-> FALSE]
      [] OTHER -> [count |-> 12, starts91 |-> TRUE]

\* len(value) of a UPI id
StrLen(str) == IF str.body = "a@upi" THEN 5 ELSE 15

NoValue == Str("none", "none", "")

\* _clean_ioc(ioc_type, value); NoValue is None
clean_ioc(ioc_type, value) ==
    CASE ioc_type = "phone" ->
            IF Digits(value).count = 10
            THEN Str("phone", "plus91", value.body)
            ELSE IF Digits(value).count = 12 /\ Digits(value).starts91
            THEN Str("phone", "plus91", value.body)
            ELSE NoValue
      [] ioc_type = "upi" ->
            IF StrLen(value) > 5 THEN lower(value) ELSE NoValue
      [] OTHER -> value

\* the matches of all patterns, pattern by pattern, each in text order
RECURSIVE MatchesFrom(_, _, _)
MatchesFrom(text, p, i) ==
    IF p > Len(IocPatternOrder) THEN <<>>
    ELSE IF i > Len(text) THEN MatchesFrom(text, p + 1, 1)
    ELSE LET found == findall(IocPatternOrder[p], text[i])
         IN [j \in DOMAIN found |->
                [pattern |-> IocPatternOrder[p], match_str |-> found[j]]]
            \o MatchesFrom(text, p, i + 1)

ExtractedIOC(ioc_type, value, source_conversation, match_str) ==
    [ioc_type |-> ioc_type, value |-> value,
     source_conversation |-> source_conversation, match_str |-> match_str]

RECURSIVE extract_loop_no_dedup(_, _, _, _, _)
extract_loop_no_dedup(matches, k, conversation_id, seen, iocs) ==
    IF k > Len(matches) THEN [seen |-> seen, iocs |-> iocs]
    ELSE LET ioc_type == IocPatternType[matches[k].pattern]
             match_str == matches[k].match_str
             match_hash == dedup_key(ioc_type, match_str)
             cleaned == clean_ioc(ioc_type, match_str)
         IN IF cleaned = NoValue
            THEN extract_loop_no_dedup(matches, k + 1, conversation_id,
                                       seen \cup {match_hash}, iocs)
            ELSE extract_loop_no_dedup(matches, k + 1, conversation_id,
                     seen \cup {match_hash},
                     Append(iocs, ExtractedIOC(ioc_type, cleaned, conversation_id,
                                               match_str)))

\* the loops of _extract_iocs, lines 154-185: a match whose key was seen is
\* skipped; otherwise the key is added, and only then is the match cleaned
RECURSIVE extract_loop(_, _, _, _, _)
extract_loop(matches, k, conversation_id, seen, iocs) ==
    IF k > Len(matches) THEN [seen |-> seen, iocs |-> iocs]
    ELSE LET ioc_type == IocPatternType[matches[k].pattern]
             match_str == matches[k].match_str
             match_hash == dedup_key(ioc_type, match_str)
             cleaned == clean_ioc(ioc_type, match_str)
         IN IF match_hash \in seen
            THEN extract_loop(matches, k + 1, conversation_id, seen, iocs)
            ELSE IF cleaned = NoValue
            THEN extract_loop(matches, k + 1, conversation_id,
                              seen \cup {match_hash}, iocs)
            ELSE extract_loop(matches, k + 1, conversation_id,
                     seen \cup {match_hash},
                     Append(iocs, ExtractedIOC(ioc_type, cleaned, conversation_id,
                                               match_str)))

\* _extract_iocs(text, context, conversation_id): the new set and the list returned
extract_iocs(text, conversation_id, seen) ==
    extract_loop(MatchesFrom(text, 1, 1), 1, conversation_id, seen, <<>>)

\* the keys of the strings matched in a text
KeysIn(text) ==
    LET matches == MatchesFrom(text, 1, 1)
    IN {dedup_key(IocPatternType[matches[k].pattern], matches[k].match_str) :
           k \in DOMAIN matches}

AllKeys == UNION {KeysIn(text) : text \in Texts}

NoExtract == [text |-> <<>>, conversation_id |-> "none", iocs |-> <<>>, seen_before |-> {}]

\* ExtractionEngine.__init__
ExtractInit ==
    /\ extracted_iocs = {}
    /\ ioc_history = <<>>
    /\ fed = [key \in AllKeys |-> 0]
    /\ lastExtract = NoExtract
    /\ extract_calls = 0

(***************************************************************************)
(* ConstitutionalAI (src/security/constitutional_ai.py)                    *)
(*                                                                         *)
(* A source string is the sequence of its parts, e.g. "outbound_test_call" *)
(* is <<"outbound_", "test_", "call">>; re.search finds a pattern in it    *)
(* when some part, lower-cased, is the pattern (re.IGNORECASE, no anchor). *)
(* A generated response is the set of the guard's pattern families that    *)
(* find a match in it.                                                     *)
(***************************************************************************)
MaxChecks == 2

Sources ==
    { <<"incoming_sms">>, <<"INCOMING_SMS">>, <<"incoming_", "whatsapp">>,
      <<"outbound_", "call">>, <<"unknown">>, <<"test_", "tech_support">>,
      <<"mock_", "scammer">>, <<"outbound_", "test_", "call">> }

\* str.lower() of a part of a source
lower_part(part) == IF part = "INCOMING_SMS" THEN "incoming_sms" ELSE part

\* validate_incoming_source, lines 65-72
allowed_patterns ==
    {"incoming_call", "incoming_sms", "incoming_email", "incoming_chat", "test_", "mock_"}

\* re.search(pattern, source, re.IGNORECASE): a match anywhere in the string
re_search(pattern, source) ==
    \E i \in DOMAIN source : lower_part(source[i]) = pattern

ConstitutionalCheck(passed, violation_type, severity) ==
    [passed |-> passed, violation_type |-> violation_type, severity |-> severity]

\* the boolean validators return True without building a check
NoCheck == ConstitutionalCheck(TRUE, "none", "none")

GuardResult(ret, check, history) == [ret |-> ret, check |-> check, history |-> history]

\* validate_incoming_source(source), lines 59-88
validate_incoming_source(source, history) ==
    IF \E pattern \in allowed_patterns : re_search(pattern, source)
    THEN GuardResult(TRUE, NoCheck, history)
    ELSE LET check == ConstitutionalCheck(FALSE, "initiation", "critical")
         IN GuardResult(FALSE, check, Append(history, check))

\* validate_input(message), lines 90-114: m.illegal says that one of the
\* extreme_illegal patterns finds a match in the message
validate_input(m, history) ==
    IF m.illegal
    THEN LET check == ConstitutionalCheck(FALSE, "harmful_content", "critical")
         IN GuardResult(FALSE, check, Append(history, check))
    ELSE GuardResult(TRUE, NoCheck, history)

\* what the guard's output patterns find in a response
Contents == SUBSET {"ai_reveal", "forbidden"}

validate_output_records_pass(content, history) ==
    IF "ai_reveal" \in content
    THEN LET check == ConstitutionalCheck(FALSE, "deception_escalation", "high")
         IN GuardResult(FALSE, check, Append(history, check))
    ELSE IF "forbidden" \in content
    THEN LET check == ConstitutionalCheck(FALSE, "harmful_content", "critical")
         IN GuardResult(FALSE, check, Append(history, check))
    ELSE GuardResult(TRUE, NoCheck, Append(history, NoCheck))

\* validate_output(response), lines 116-154: the ai_reveals patterns are tried
\* before FORBIDDEN_OUTPUTS
validate_output(content, history) ==
    IF "ai_reveal" \in content
    THEN LET check == ConstitutionalCheck(FALSE, "deception_escalation", "high")
         IN GuardResult(FALSE, check, Append(history, check))
    ELSE IF "forbidden" \in content
    THEN LET check == ConstitutionalCheck(FALSE, "harmful_content", "critical")
         IN GuardResult(FALSE, check, Append(history, check))
    ELSE GuardResult(TRUE, NoCheck, history)

\* config.get('max_conversation_duration', 3600)
max_duration == 3600
\* the literal of line 175
max_extraction_count == 20

\* StateContext.time_in_state
time_in_state == now - state_entry_time

\* validate_conversation_state(session), lines 156-188: extraction_data is the
\* set of the keys of context.extraction_data that hold a truthy value
validate_conversation_state(history) ==
    IF time_in_state > max_duration
    THEN GuardResult(FALSE, ConstitutionalCheck(FALSE, "deception_escalation", "medium"),
                     history)
    ELSE IF Cardinality(extraction_data) > max_extraction_count
    THEN GuardResult(FALSE, ConstitutionalCheck(FALSE, "deception_escalation", "medium"),
                     history)
    ELSE GuardResult(TRUE, ConstitutionalCheck(TRUE, "none", "none"), history)

GuardCall(op, arg, ret, check, pre_history) ==
    [op |-> op, arg |-> arg, ret |-> ret, check |-> check, pre_history |-> pre_history,
     pre_session |-> <<current_state, transition_count, previous_states>>]
NoGuardCall ==
    [op |-> "none", arg |-> <<>>, ret |-> TRUE, check |-> NoCheck, pre_history |-> <<>>,
     pre_session |-> <<IDLE, 0, <<>> >>]

\* ConstitutionalAI.__init__
GuardInit ==
    /\ violation_history = <<>>
    /\ lastGuard = NoGuardCall

(***************************************************************************)
(* GhostWireEngine and ConversationSession (src/core/engine.py)            *)
(*                                                                         *)
(* sessions is the registry in creation order: session ids are fresh       *)
(* uuid4 strings, so the i-th session created has id i, and sessions[i] is *)
(* its source.  The state machine variables, message_count, created_at and *)
(* extraction_data are those of the first session, the conversation that   *)
(* is followed.                                                            *)
(***************************************************************************)
MaxSessions == 1
\* messages the conversation followed is given
MaxMessages == 1

\* an id no session was registered under
UnknownSession == 0

\* the messages the engine is given: what the router's patterns find in them
\* (hits, words), the indicators they carry (text), whether _extract_tactics
\* finds a keyword (tactics) and whether validate_input's patterns match (illegal)
EngineMessage(hits, words, text, tactics, illegal) ==
    [hits |-> hits, words |-> words, text |-> text, tactics |-> tactics,
     illegal |-> illegal]

\* a reply: where its text came from and what the guard's patterns find in it;
\* the templates and the fixed replies contain none of the guard's patterns
Reply(source, category, content) ==
    [source |-> source, category |-> category, content |-> content]
NoReply == Reply("none", "none", {})
\* get_response, line 244
SafeReply == Reply("safe", "none", {})
\* get_response, line 260
ErrorReply == Reply("error", "none", {})

\* an engine call: what it was asked, how far it got, what it returned, and the
\* state it started from
NoEngineCall ==
    [op |-> "none", done |-> TRUE, session |-> UnknownSession, source |-> <<>>,
     input_ok |-> TRUE, processed |-> FALSE, extracted |-> FALSE,
     generated |-> NoReply, output_ok |-> TRUE, ret |-> NoReply, raised |-> FALSE,
     pre_sessions |-> <<>>, pre_entries |-> 0, pre_extract_calls |-> 0,
     pre_extraction_data |-> {}, pre_phase |-> IDLE, pre_violations |-> 0]

\* GhostWireEngine.__init__: no session; the fields of the session followed
\* have the values ConversationSession.__init__ gives them
EngineInit ==
    /\ sessions = <<>>
    /\ message_count = 0
    /\ created_at = 0
    /\ extraction_data = {}
    /\ engine_pc = "idle"
    /\ lastEngine = NoEngineCall

\* a written piece of text: its letters and whether they are written in capitals
Written(body, caps) == [body |-> body, caps |-> caps]

\* LocalLLMClient.__init__ and CortexBrain.__init__: nothing is known about the
\* Ollama server and no call is suspended; no tactics were asked for
ClientInit ==
    /\ suspended = <<>>
    /\ ollama_available = "None"
    /\ lastTactics = [message |-> {}, tactics |-> <<>>]

ServiceInit == ExtractInit /\ GuardInit /\ EngineInit /\ ClientInit

NoMessage == [hits |-> {}, words |-> 0]
NoDecision == [brain |-> "none", confidence |-> 0, reason |-> "none", latency_budget_ms |-> 0]
NoRoute == [brain |-> "none"]

\* ConversationStateMachine.__init__ and StateContext's defaults
Init ==
    /\ current_state = IDLE
    /\ previous_states = <<>>
    /\ state_entry_time = 0
    /\ transition_count = 0
    /\ max_transitions \in 1..MaxCeiling
    /\ entry_hooks = NoHooks
    /\ exit_hooks = NoHooks
    /\ hooks_registered = 0
    /\ now = 0
    /\ lastCall = NoCall
    /\ message = NoMessage
    /\ decision = NoDecision
    /\ routed = NoRoute
    /\ cortex_history = <<>>
    /\ AuditInit
    /\ ServiceInit

Next ==
    \/ \E t \in State : transition(t)
    \/ force_termination
    \/ \E ht \in {"entry", "exit", "handler"}, s \in HookPhases : register_hook(ht, s)
    \/ call_should_extract
    \/ Tick

Spec == Init /\ [][Next]_vars


(***************************************************************************)
(* ReflexBrain (brains/reflex_brain.py).  A message is what the router     *)
(* reads of it: the set of PATTERNS whose regex finds a match in it and    *)
(* its number of whitespace-separated words.  Pattern weights and          *)
(* confidences are in hundredths, category urgency weights in tenths, so   *)
(* the urgency score (their product) is in thousandths.                    *)
(***************************************************************************)
\* messages carry at most MaxHits matching patterns
MaxHits == 3
\* word counts explored on either side of the complexity threshold
WordsAround == 1

PATTERNS ==
    [urgent_action      |-> [weight |-> 70, category |-> "pressure_tactic"],
     threat_legal       |-> [weight |-> 80, category |-> "threat"],
     threat_financial   |-> [weight |-> 75, category |-> "threat"],
     request_payment    |-> [weight |-> 60, category |-> "financial"],
     request_giftcard   |-> [weight |-> 90, category |-> "financial"],
     request_crypto     |-> [weight |-> 85, category |-> "financial"],
     request_bank_info  |-> [weight |-> 95, category |-> "financial"],
     remote_access      |-> [weight |-> 90, category |-> "technical"],
     software_install   |-> [weight |-> 60, category |-> "technical"],
     verify_identity    |-> [weight |-> 50, category |-> "phishing"],
     prize_win          |-> [weight |-> 80, category |-> "lottery"],
     romance_signal     |-> [weight |-> 40, category |-> "romance"],
     tech_support_claim |-> [weight |-> 60, category |-> "impersonation"],
     virus_warning      |-> [weight |-> 70, category |-> "technical"]]

PatternNames == DOMAIN PATTERNS

\* urgency_weights of get_urgency_score (every category of PATTERNS has an entry)
urgency_weights ==
    [threat |-> 10, financial |-> 9, pressure_tactic |-> 8, technical |-> 7,
     lottery |-> 5, romance |-> 3, phishing |-> 6, impersonation |-> 6]

Max(S) == CHOOSE x \in S : \A y \in S : y <= x
Min2(a, b) == IF a <= b THEN a ELSE b

\* ReflexBrain._has_multiple_indicators
has_multiple_indicators(m) == Cardinality(m.hits) >= 3

\* ReflexBrain.analyze: the confidence given to the match of pattern name
match_confidence(m, name) ==
    IF has_multiple_indicators(m)
    THEN Min2(100, PATTERNS[name].weight + 10)
    ELSE PATTERNS[name].weight

\* ReflexBrain.get_urgency_score
get_urgency_score_unweighted(m) ==
    IF m.hits = {} THEN 0
    ELSE Min2(1000, Max({match_confidence(m, name) * 10 : name \in m.hits}))

get_urgency_score(m) ==
    IF m.hits = {} THEN 0
    ELSE Min2(1000,
              Max({match_confidence(m, name) * urgency_weights[PATTERNS[name].category]
                     : name \in m.hits}))

(***************************************************************************)
(* BrainRouter (brains/router.py)                                          *)
(***************************************************************************)
urgency_threshold == 700
complexity_threshold == 50

RoutingDecision(brain, confidence, reason, reason_arg, latency_budget_ms) ==
    [brain |-> brain, confidence |-> confidence, reason |-> reason,
     reason_arg |-> reason_arg, latency_budget_ms |-> latency_budget_ms]

\* BrainRouter._decide_brain; reason_arg is the number formatted into the reason
decide_brain_extraction_only(m) ==
    LET urgency == get_urgency_score(m)
        word_count == m.words
        state == get_current_state
    IN IF state \in {"extraction"}
       THEN RoutingDecision("cortex", 900, "Active extraction phase", 0, 5000)
       ELSE IF urgency > urgency_threshold
       THEN RoutingDecision("cortex", urgency, "High urgency score", urgency, 4000)
       ELSE IF word_count > complexity_threshold
       THEN RoutingDecision("cortex", 600, "Complex message", word_count, 4000)
       ELSE RoutingDecision("reflex", 800, "Low complexity, using fast path", 0, 100)

decide_brain_complexity_first(m) ==
    LET urgency == get_urgency_score(m)
        word_count == m.words
        state == get_current_state
    IN IF state \in {"extraction", "suspicion_arousal"}
       THEN RoutingDecision("cortex", 900, "Active extraction phase", 0, 5000)
       ELSE IF word_count > complexity_threshold
       THEN RoutingDecision("cortex", 600, "Complex message", word_count, 4000)
       ELSE IF urgency > urgency_threshold
       THEN RoutingDecision("cortex", urgency, "High urgency score", urgency, 4000)
       ELSE RoutingDecision("reflex", 800, "Low complexity, using fast path", 0, 100)

decide_brain(m) ==
    LET urgency == get_urgency_score(m)
        word_count == m.words
        state == get_current_state
    IN IF state \in {"extraction", "suspicion_arousal"}
       THEN RoutingDecision("cortex", 900, "Active extraction phase", 0, 5000)
       ELSE IF urgency > urgency_threshold
       THEN RoutingDecision("cortex", urgency, "High urgency score", urgency, 4000)
       ELSE IF word_count > complexity_threshold
       THEN RoutingDecision("cortex", 600, "Complex message", word_count, 4000)
       ELSE RoutingDecision("reflex", 800, "Low complexity, using fast path", 0, 100)

WordCounts ==
    {0, 1} \cup ((complexity_threshold - WordsAround)..(complexity_threshold + WordsAround))

\* the messages explored: every set of at most MaxHits matching patterns with
\* every explored word count (a message in which a pattern matches has a word)
\* "You have won ₹5 crore! Send ₹10,000 processing fee to UPI prizewinner@upi":
\* of the regexes of PATTERNS only prize_win ("won") and request_payment ("fee")
\* find a match in it, and split() gives 12 words
ScenarioMessage == [hits |-> {"prize_win", "request_payment"}, words |-> 12]

Messages ==
    {m \in [hits : {h \in SUBSET PatternNames : Cardinality(h) <= MaxHits},
            words : WordCounts] : m.hits # {} => m.words >= 1}
    \cup {ScenarioMessage}

\* the order of the keys of PATTERNS, which is the order of analyze's matches
\* before the (stable) sort by confidence
PatternOrder ==
    <<"urgent_action", "threat_legal", "threat_financial", "request_payment",
      "request_giftcard", "request_crypto", "request_bank_info", "remote_access",
      "software_install", "verify_identity", "prize_win", "romance_signal",
      "tech_support_claim", "virus_warning">>

OrderOf(name) == CHOOSE i \in DOMAIN PatternOrder : PatternOrder[i] = name

\* ReflexBrain.analyze: matches[0] after the sort by confidence, descending
top_match(m) ==
    CHOOSE n \in m.hits : \A o \in m.hits :
        \/ match_confidence(m, n) > match_confidence(m, o)
        \/ /\ match_confidence(m, n) = match_confidence(m, o)
           /\ OrderOf(n) <= OrderOf(o)

\* the keys of ReflexBrain.RESPONSES
RESPONSES ==
    {"pressure_tactic", "threat", "financial", "technical", "lottery", "romance",
     "phishing", "impersonation"}

ReflexMetadata(used, pattern, confidence, category) ==
    [used |-> used, brain |-> IF used THEN "reflex" ELSE "none",
     pattern |-> pattern, confidence |-> confidence, category |-> category]

\* ReflexBrain.generate_response: the metadata (the response is a template of
\* the metadata's category, or None when not used)
generate_response(m) ==
    IF m.hits = {} THEN ReflexMetadata(FALSE, "none", 0, "none")
    ELSE LET top == top_match(m)
             category == PATTERNS[top].category
         IN IF category \in RESPONSES
            THEN ReflexMetadata(TRUE, top, match_confidence(m, top), category)
            ELSE ReflexMetadata(FALSE, "none", 0, "none")

(***************************************************************************)
(* CortexBrain (brains/cortex_brain.py)                                    *)
(***************************************************************************)
max_history == 10

\* what self.llm.generate does: it returns generated text or raises
LLMOutcomes == {"generated", "failed"}

\* CortexBrain._update_history
update_history(history, m) ==
    LET h == Append(history, m)
    IN IF Len(h) > max_history
       THEN SubSeq(h, Len(h) - max_history + 1, Len(h))
       ELSE h

cortex_generate_response_records_failure(llm) ==
    IF llm = "generated"
    THEN [response |-> [source |-> "cortex", category |-> "none"],
          brain |-> "cortex", history_update |-> TRUE]
    ELSE [response |-> [source |-> "fallback", category |-> "none"],
          brain |-> "none", history_update |-> TRUE]

\* CortexBrain.generate_response: (response, metadata)
cortex_generate_response(llm) ==
    IF llm = "generated"
    THEN [response |-> [source |-> "cortex", category |-> "none"],
          brain |-> "cortex", history_update |-> TRUE]
    ELSE [response |-> [source |-> "fallback", category |-> "none"],
          brain |-> "none", history_update |-> FALSE]

\* the result of BrainRouter.route: the brain of the final decision, the response
\* returned, the brains of the metadata handed to _log_response, whether
\* _log_response asks the state machine for a transition, and whether the cortex
\* history is updated
RouteResult(brain, reason, response, logged, self_transition, history_update) ==
    [brain |-> brain, reason |-> reason, response |-> response, logged |-> logged,
     self_transition |-> self_transition, history_update |-> history_update]

\* BrainRouter._log_response: does it call state_machine.transition?
log_response_transitions(metadata) ==
    metadata.brain = "reflex" /\ metadata.category = "financial"

CortexPath(brain, reason, llm) ==
    LET c == cortex_generate_response(llm)
    IN RouteResult(brain, reason, c.response, <<c.brain>>, FALSE, c.history_update)

\* BrainRouter.route
route_no_upgrade(m, llm) ==
    LET d == decide_brain(m)
        metadata == generate_response(m)
    IN IF d.brain = "reflex" /\ metadata.used
       THEN RouteResult("reflex", d.reason,
                        [source |-> "reflex", category |-> metadata.category],
                        <<"reflex">>, log_response_transitions(metadata), FALSE)
       ELSE IF d.brain = "cortex"
       THEN CortexPath("cortex", d.reason, llm)
       ELSE RouteResult("reflex", d.reason, [source |-> "default", category |-> "none"],
                        <<>>, FALSE, FALSE)

route(m, llm) ==
    LET d == decide_brain(m)
        metadata == generate_response(m)
    IN IF d.brain = "reflex" /\ metadata.used /\ metadata.confidence > 80
       THEN CortexPath("cortex", "High-confidence scam, escalating for extraction", llm)
       ELSE IF d.brain = "reflex" /\ metadata.used
       THEN RouteResult("reflex", d.reason,
                        [source |-> "reflex", category |-> metadata.category],
                        <<"reflex">>, log_response_transitions(metadata), FALSE)
       ELSE IF d.brain = "cortex"
       THEN CortexPath("cortex", d.reason, llm)
       ELSE RouteResult("reflex", d.reason, [source |-> "default", category |-> "none"],
                        <<>>, FALSE, FALSE)

log_response_target_moves ==
    IF current_state = INITIAL_CONTACT THEN TRUST_BUILDING ELSE current_state

\* BrainRouter._log_response: the target of the transition it asks for is
\* session.state_machine.get_current_state() ("Stay or move")
log_response_target == get_current_state

\* the router decides on the message the session handed to it
DecideBrain ==
    /\ decision' = decide_brain(message)
    /\ UNCHANGED <<fsmVars, max_transitions, hookVars, now, lastCall, message,
                   routed, cortex_history, auditVars, serviceVars>>

\* the session hands its message to BrainRouter.route, once
Route ==
    /\ routed = NoRoute
    /\ \E llm \in LLMOutcomes :
          LET r == route(message, llm)
          IN /\ decision' = decide_brain(message)
             /\ routed' = r
             /\ cortex_history' = IF r.history_update
                                  THEN update_history(cortex_history, message)
                                  ELSE cortex_history
             /\ IF r.self_transition
                THEN \E raising \in SUBSET HooksInvoked(log_response_target) :
                        TransitionBody("transition", log_response_target, raising)
                ELSE UNCHANGED <<fsmVars, lastCall>>
    /\ UNCHANGED <<max_transitions, hookVars, now, message, auditVars, serviceVars>>

\* ConversationSession.__init__: the session's state machine is built with the
\* default ceiling and the two entry hooks of _setup_state_handlers
DefaultMaxTransitions == 20

SessionHooks == [NoHooks EXCEPT ![EXTRACTION] = <<1>>, ![TERMINATION] = <<2>>]

\* the shortest sequence of accepted transitions that leads to each phase
HistoryTo ==
    [s \in State |->
        CASE s = IDLE -> <<>>
          [] s = INITIAL_CONTACT -> <<IDLE>>
          [] s = EXTRACTION -> <<IDLE, INITIAL_CONTACT, TRUST_BUILDING>>
          [] OTHER -> <<IDLE, INITIAL_CONTACT>>]

\* the history of a session that reached Termination with its
\* DefaultMaxTransitions-th transition, through Extraction's self-loop
CeilingHistory ==
    [i \in 1..DefaultMaxTransitions |->
        CASE i = 1 -> IDLE
          [] i = 2 -> INITIAL_CONTACT
          [] i = 3 -> TRUST_BUILDING
          [] OTHER -> EXTRACTION]

\* a session whose state machine has been driven to some phase receives a message
InitRouter ==
    /\ current_state \in State
    /\ previous_states \in {HistoryTo[current_state]}
                              \cup (IF current_state = TERMINATION
                                    THEN {CeilingHistory} ELSE {})
    /\ transition_count = Len(previous_states)
    /\ state_entry_time = 0
    /\ max_transitions = DefaultMaxTransitions
    /\ entry_hooks = SessionHooks
    /\ exit_hooks = NoHooks
    /\ hooks_registered = 2
    /\ now = 0
    /\ lastCall = NoCall
    /\ message \in Messages
    /\ decision = NoDecision
    /\ routed = NoRoute
    /\ cortex_history = <<>>
    /\ AuditInit
    /\ ServiceInit

NextRouter == DecideBrain \/ Route

SpecRouter == InitRouter /\ [][NextRouter]_vars


(***************************************************************************)
(* Properties of the state machine (checked under Spec)                    *)
(***************************************************************************)
IsTransitionCall == lastCall.op = "transition"
Accepted == lastCall.op \in {"transition", "force_termination"} /\ lastCall.ret

\* C1 (as stated): transition(T) returns true iff T is in TRANSITIONS[P] and
\* transition_count < max_transitions; when it returns false the phase is unchanged.
C1_SucceedsIffTableAndBelowCeiling ==
    IsTransitionCall =>
        /\ lastCall.ret <=> (/\ lastCall.target \in TRANSITIONS[lastCall.pre_state]
                             /\ lastCall.pre_count < max_transitions)
        /\ ~lastCall.ret => current_state = lastCall.pre_state

\* C1 (amended): transition(T) returns true iff either the ceiling has not been
\* reached and T is in TRANSITIONS[P], or the ceiling has been reached and T is
\* Termination; when it returns false the phase is unchanged.
C1_SucceedsIffTableOrCeilingTermination ==
    IsTransitionCall =>
        /\ lastCall.ret <=>
              \/ /\ lastCall.pre_count < max_transitions
                 /\ lastCall.target \in TRANSITIONS[lastCall.pre_state]
              \/ /\ lastCall.pre_count >= max_transitions
                 /\ lastCall.target = TERMINATION
        /\ ~lastCall.ret => current_state = lastCall.pre_state

\* a transition to Termination accepted at the ceiling from a live phase
C1_Witness ==
    /\ IsTransitionCall /\ lastCall.ret
    /\ lastCall.pre_count >= max_transitions
    /\ lastCall.pre_state \notin {IDLE, TERMINATION}
    /\ current_state = TERMINATION

\* C2: once the phase is Termination, every transition call returns false,
\* for any target and any transition count.
C2_TerminationRejectsEveryTransition ==
    (IsTransitionCall /\ lastCall.pre_state = TERMINATION) => ~lastCall.ret

\* C3: after exactly max_transitions successful transitions, transition(T) is
\* accepted only for T = Termination, whatever the phase and the table; every
\* other target is rejected and the state is left as it was.
C3_AtCeilingOnlyTermination ==
    (IsTransitionCall /\ lastCall.pre_count = max_transitions) =>
        /\ lastCall.ret => (lastCall.target = TERMINATION /\ current_state = TERMINATION)
        /\ lastCall.target # TERMINATION =>
              /\ ~lastCall.ret
              /\ current_state = lastCall.pre_state
              /\ previous_states = lastCall.pre_history
              /\ transition_count = lastCall.pre_count

\* at the ceiling, a target the table allows from the current phase is rejected
C3_Witness ==
    /\ IsTransitionCall /\ ~lastCall.ret
    /\ lastCall.pre_count = max_transitions
    /\ lastCall.target # TERMINATION
    /\ lastCall.target \in TRANSITIONS[lastCall.pre_state]

\* C4: Termination is absorbing: once the phase is Termination it stays
\* Termination through every further transition and force_termination call.
C4_TerminationAbsorbing ==
    [][current_state = TERMINATION => current_state' = TERMINATION]_vars

\* a transition to another phase was asked for while the phase was Termination
\* and the ceiling had not been reached
C4_Witness ==
    /\ IsTransitionCall
    /\ lastCall.pre_state = TERMINATION
    /\ lastCall.pre_count < max_transitions
    /\ lastCall.target # TERMINATION
    /\ current_state = TERMINATION

\* C5: a rejected transition returns false and is a no-op: phase, history, count
\* and entry timestamp are unchanged and no entry or exit hook is invoked.
C5_RejectedTransitionNoOp ==
    (IsTransitionCall /\ ~lastCall.ret) =>
        /\ current_state = lastCall.pre_state
        /\ previous_states = lastCall.pre_history
        /\ transition_count = lastCall.pre_count
        /\ state_entry_time = lastCall.pre_entry_time
        /\ lastCall.trace = <<>>

\* a transition is rejected in a phase that has an exit hook, at a time later
\* than the entry into the phase
C5_Witness ==
    /\ IsTransitionCall /\ ~lastCall.ret
    /\ exit_hooks[current_state] # <<>>
    /\ entry_hooks[lastCall.target] # <<>>
    /\ now > state_entry_time

\* C6: after force_termination returns, is_terminal() is true, from every phase
\* and every transition count.
C6_ForceTerminationTerminates ==
    lastCall.op = "force_termination" => is_terminal

ExitEvents == SelectSeq(lastCall.trace, LAMBDA e : e.kind = "exit")
EntryEvents == SelectSeq(lastCall.trace, LAMBDA e : e.kind = "entry")
HooksOf(events) == [i \in 1..Len(events) |-> events[i].hook]

\* C7: a raising hook never aborts or alters a transition: an accepted transition
\* returns true, advances the phase to the target, records the prior phase and
\* increments the count whichever hooks raise, and every exit hook of the old
\* phase and every entry hook of the target runs, those after a failing one too.
C7_HookErrorsDoNotAbort ==
    /\ lastCall.op \in {"transition", "force_termination"} =>
          (lastCall.ret <=> (IF lastCall.pre_count >= max_transitions
                             THEN lastCall.target = TERMINATION
                             ELSE lastCall.target \in TRANSITIONS[lastCall.pre_state])
                            /\ (lastCall.op = "force_termination"
                                   => lastCall.pre_state # TERMINATION))
    /\ Accepted =>
          /\ current_state = lastCall.target
          /\ previous_states = Append(lastCall.pre_history, lastCall.pre_state)
          /\ transition_count = lastCall.pre_count + 1
          /\ HooksOf(ExitEvents) = exit_hooks[lastCall.pre_state]
          /\ HooksOf(EntryEvents) = entry_hooks[lastCall.target]

\* an accepted transition in which a hook raised and a hook registered after it
\* on the same list ran
C7_Witness ==
    /\ Accepted
    /\ current_state = lastCall.target
    /\ \E i, j \in 1..Len(lastCall.trace) :
          /\ i < j
          /\ lastCall.trace[i].raised
          /\ lastCall.trace[i].kind = lastCall.trace[j].kind

\* C8: an accepted transition from P to T runs the exit hooks registered for P in
\* registration order (each observing phase P), then updates the phase, then runs
\* the entry hooks registered for T in registration order (each observing phase
\* T); no other hook is invoked.
C8_HookOrder ==
    Accepted =>
        LET ex == exit_hooks[lastCall.pre_state]
            en == entry_hooks[lastCall.target]
            tr == lastCall.trace
        IN /\ Len(tr) = Len(ex) + 1 + Len(en)
           /\ \A i \in 1..Len(ex) :
                 /\ tr[i].kind = "exit" /\ tr[i].hook = ex[i]
                 /\ tr[i].observed = lastCall.pre_state
           /\ tr[Len(ex) + 1].kind = "update"
           /\ \A i \in 1..Len(en) :
                 /\ tr[Len(ex) + 1 + i].kind = "entry" /\ tr[Len(ex) + 1 + i].hook = en[i]
                 /\ tr[Len(ex) + 1 + i].observed = lastCall.target
           /\ \A i, j \in 1..Len(tr) :
                 (i < j /\ tr[i].kind = tr[j].kind) => tr[i].hook < tr[j].hook

\* an accepted transition between two phases that ran two hooks of one list
C8_Witness ==
    /\ Accepted
    /\ lastCall.pre_state # lastCall.target
    /\ \/ Len(exit_hooks[lastCall.pre_state]) >= 2
       \/ Len(entry_hooks[lastCall.target]) >= 2

\* C9: should_extract() returns true exactly when the phase is SuspicionArousal
\* or Extraction.
C9_ShouldExtractPhases ==
    /\ lastCall.op = "should_extract" =>
          (lastCall.ret <=> current_state \in {SUSPICION_AROUSAL, EXTRACTION})
    /\ should_extract <=> (current_state = SUSPICION_AROUSAL \/ current_state = EXTRACTION)

\* should_extract() was asked in SuspicionArousal and answered true
C9_Witness ==
    /\ lastCall.op = "should_extract"
    /\ current_state = SUSPICION_AROUSAL
    /\ lastCall.ret

(***************************************************************************)
(* Properties of the router's decision (checked under SpecRouter)          *)
(***************************************************************************)
Decided == decision # NoDecision

\* C10: in phase Extraction or SuspicionArousal the decision is cortex (escalate)
\* with the reason "Active extraction phase", for every message content, urgency
\* score and word count.
C10_ExtractionPhaseEscalates ==
    (Decided /\ current_state \in {EXTRACTION, SUSPICION_AROUSAL}) =>
        /\ decision.brain = "cortex"
        /\ decision.reason = "Active extraction phase"

\* in SuspicionArousal a short message matching no pattern is escalated
C10_Witness ==
    /\ Decided
    /\ current_state = SUSPICION_AROUSAL
    /\ message.hits = {} /\ message.words <= complexity_threshold
    /\ decision.brain = "cortex"


file_append_truncating(lines, line) ==
    <<line>>

\* with open(file, 'a') as f: f.write(line): the line goes after the lines present
file_append(lines, line) ==
    Append(lines, line)

\* log_event(event_type, data): chain_hash is assigned (line 73) before the file
\* is opened and written (lines 80-81); a failure there propagates to the caller
LogEventBody(event, outcome) ==
    /\ tampered = NoTamper
    /\ log_events < MaxAppends
    /\ LET entry == log_entry(log_events + 1, event, chain_hash, sha256)
       IN /\ sha256' = log_table(log_events + 1, event, chain_hash, sha256)
          /\ chain_hash' = entry.chain_hash
          /\ IF outcome = "ok"
             THEN /\ log_files' = [log_files EXCEPT
                                      ![current_log_file] = file_append(@, entry)]
                  /\ file_exists' = file_exists \cup {current_log_file}
                  /\ last_persisted' = entry.chain_hash
                  /\ lastAudit' = AuditCall("log_event", outcome, current_log_file,
                                            entry.entry_hash,
                                            Len(log_files[current_log_file]) + 1,
                                            chain_hash, last_persisted,
                                            ~called_since_restart)
             ELSE /\ log_files' = log_files
                  /\ file_exists' = IF outcome = "write_fails"
                                    THEN file_exists \cup {current_log_file}
                                    ELSE file_exists
                  /\ UNCHANGED last_persisted
                  /\ lastAudit' = AuditCall("log_event", outcome, current_log_file, None, 0,
                                            chain_hash, last_persisted, FALSE)
    /\ log_events' = log_events + 1
    /\ called_since_restart' = TRUE
    /\ UNCHANGED <<current_log_file, tampered, restarts>>

\* log_event is called on the logger directly
LogEvent(event, outcome) ==
    /\ LogEventBody(event, outcome)
    /\ UNCHANGED <<sessionVars, serviceVars>>

\* close(): one more log_event, for the shutdown
Close(outcome) ==
    LogEvent([event_type |-> "system_shutdown", data |-> "graceful"], outcome)

\* get_events(event_type): the entries of all files with that type (None: every
\* entry); the files are only read
get_events(event_type) ==
    {<<f, i>> \in Months \X (1..MaxAppends) :
        /\ f \in file_exists
        /\ i \in DOMAIN log_files[f]
        /\ (event_type # "" => log_files[f][i].event_type = event_type)}

GetEvents(event_type) ==
    /\ tampered = NoTamper
    /\ lastAudit' = AuditCall("get_events", "ok", current_log_file,
                              Cardinality(get_events(event_type)), 0, chain_hash,
                              last_persisted, FALSE)
    /\ UNCHANGED <<log_files, file_exists, chain_hash, current_log_file, sha256,
                   tampered, log_events, restarts, called_since_restart,
                   last_persisted, sessionVars, serviceVars>>

\* the process ends and a new AuditLogger is constructed, in the same month or a
\* later one: __init__ sets chain_hash to None, runs _load_chain_state and fixes
\* current_log_file
Restart(month) ==
    /\ tampered = NoTamper
    /\ restarts < MaxRestarts
    /\ month >= current_log_file
    /\ chain_hash' = load_chain_state(file_exists, log_files)
    /\ current_log_file' = month
    /\ called_since_restart' = FALSE
    /\ restarts' = restarts + 1
    /\ lastAudit' = AuditCall("restart", "ok", month, None, 0, chain_hash,
                              last_persisted, FALSE)
    /\ UNCHANGED <<log_files, file_exists, sha256, tampered, log_events, last_persisted,
                   sessionVars, serviceVars>>

\* the values a field of a stored entry can be altered to
TamperValues(field) ==
    CASE field = "timestamp" -> {Garbage} \cup (1..MaxAppends)
      [] field = "event_type" -> {e.event_type : e \in Events} \cup {"tampered"}
      [] field = "data" -> {e.data : e \in Events} \cup {"tampered"}
      [] OTHER -> {None, Garbage} \cup (1..Len(sha256))

EntryFields ==
    {"timestamp", "event_type", "data", "previous_hash", "entry_hash", "chain_hash"}

\* somebody alters one field of one entry of a log file, once
TamperEntry(file, line, field) ==
    /\ tampered = NoTamper
    /\ file \in file_exists
    /\ line \in DOMAIN log_files[file]
    /\ \E value \in TamperValues(field) :
          /\ value # log_files[file][line][field]
          /\ log_files' = [log_files EXCEPT ![file][line][field] = value]
    /\ tampered' = Tamper(file, line, field, verify_chain(file).ok)
    /\ lastAudit' = NoAuditCall
    /\ UNCHANGED <<file_exists, chain_hash, current_log_file, sha256,
                   log_events, restarts, called_since_restart, last_persisted,
                   sessionVars, serviceVars>>

\* verify_chain(log_file) is called
VerifyChain(file) ==
    /\ file \in file_exists \cup {current_log_file}
    /\ lastAudit' =
          LET v == verify_chain(file)
          IN AuditCall("verify_chain", IF v.ok THEN "true" ELSE "false", file, None,
                       v.line, chain_hash, last_persisted, FALSE)
    /\ UNCHANGED <<log_files, file_exists, chain_hash, current_log_file, sha256,
                   tampered, log_events, restarts, called_since_restart,
                   last_persisted, sessionVars, serviceVars>>

\* the engine's audit logger on an empty log directory; the session is idle
InitAudit ==
    /\ current_state = IDLE
    /\ previous_states = <<>>
    /\ state_entry_time = 0
    /\ transition_count = 0
    /\ max_transitions = DefaultMaxTransitions
    /\ entry_hooks = SessionHooks
    /\ exit_hooks = NoHooks
    /\ hooks_registered = 2
    /\ now = 0
    /\ lastCall = NoCall
    /\ message = NoMessage
    /\ decision = NoDecision
    /\ routed = NoRoute
    /\ cortex_history = <<>>
    /\ AuditInit
    /\ ServiceInit

NextAudit ==
    \/ \E event \in Events, outcome \in WriteOutcomes : LogEvent(event, outcome)
    \/ \E month \in Months : Restart(month)
    \/ \E file \in Months : VerifyChain(file)

SpecAudit == InitAudit /\ [][NextAudit]_vars

\* every method of the logger, for one conversation's session_created events
LoggedEvents == {e \in Events : e.event_type = "session_created"}

NextLogger ==
    \/ \E event \in LoggedEvents, outcome \in WriteOutcomes : LogEvent(event, outcome)
    \/ \E month \in Months : Restart(month)
    \/ \E file \in Months : VerifyChain(file)
    \/ \E event_type \in {"", "session_created"} : GetEvents(event_type)
    \/ \E outcome \in WriteOutcomes : Close(outcome)

SpecLogger == InitAudit /\ [][NextLogger]_vars

\* the same logger when every write succeeds, and one alteration of its files
NextTamper ==
    \/ \E event \in Events : LogEvent(event, "ok")
    \/ \E month \in Months : Restart(month)
    \/ \E file \in Months, line \in 1..MaxAppends, field \in EntryFields :
          TamperEntry(file, line, field)
    \/ \E file \in Months : VerifyChain(file)

SpecTamper == InitAudit /\ [][NextTamper]_vars

Routed == routed # NoRoute
InExtractionPhase == current_state \in {EXTRACTION, SUSPICION_AROUSAL}

\* C11: the decision follows the ordered rules, first match winning: fast path
\* iff the phase is neither Extraction nor SuspicionArousal, the urgency score
\* does not exceed 0.7 and the word count does not exceed 50; the reason is that
\* of the earliest rule that applies (phase, then urgency, then complexity).
C11_OrderedRules ==
    Decided =>
        LET urgency == get_urgency_score(message)
        IN /\ decision.brain \in {"reflex", "cortex"}
           /\ decision.brain = "reflex" <=>
                 /\ ~InExtractionPhase
                 /\ urgency <= urgency_threshold
                 /\ message.words <= complexity_threshold
           /\ InExtractionPhase => decision.reason = "Active extraction phase"
           /\ (~InExtractionPhase /\ urgency > urgency_threshold) =>
                 /\ decision.reason = "High urgency score"
                 /\ decision.reason_arg = urgency
           /\ (~InExtractionPhase /\ urgency <= urgency_threshold
                 /\ message.words > complexity_threshold) =>
                 /\ decision.reason = "Complex message"
                 /\ decision.reason_arg = message.words

\* outside the extraction phases, a long message with a high urgency score is
\* escalated for its urgency
C11_Witness ==
    /\ Decided /\ ~InExtractionPhase
    /\ get_urgency_score(message) > urgency_threshold
    /\ message.words > complexity_threshold
    /\ decision.reason = "High urgency score"

\* the fast path was chosen and the fast responder's top match is above 0.8
FastPathHighConfidence ==
    /\ Routed
    /\ decision.brain = "reflex"
    /\ message.hits # {}
    /\ match_confidence(message, top_match(message)) > 80

InScenario ==
    /\ Decided
    /\ message = ScenarioMessage
    /\ lastCall = NoCall /\ current_state = INITIAL_CONTACT

ScenarioFlags ==
    /\ "request_payment" \in message.hits
    /\ "lottery" \in {PATTERNS[n].category : n \in message.hits}

RECURSIVE LinesUpTo(_)
LinesUpTo(f) == IF f < 0 THEN 0 ELSE Len(log_files[f]) + LinesUpTo(f - 1)

\* every log_event call so far appended its line
NoFailedWrite == LinesUpTo(MaxMonth) = log_events

VerifyCalled == lastAudit.op = "verify_chain"

\* C14: after any sequence of successful log_event calls by a single writer on
\* an initially empty log, verify_chain on the untampered log returns true.
C14_UntamperedLogVerifies ==
    (NoFailedWrite /\ tampered = NoTamper) =>
        /\ VerifyCalled => lastAudit.outcome = "true"
        /\ \A f \in Months : verify_chain(f).ok

\* one logger appended three entries and verify_chain returned true
C14_Witness ==
    /\ NoFailedWrite /\ restarts = 0
    /\ Len(log_files[current_log_file]) = MaxAppends
    /\ VerifyCalled /\ lastAudit.file = current_log_file
    /\ lastAudit.outcome = "true"

\* verify_chain ran on a file that was valid before one field of one entry was altered
VerifiedAfterTamper ==
    /\ VerifyCalled
    /\ tampered # NoTamper
    /\ tampered.was_valid
    /\ lastAudit.file = tampered.file

\* C15: verify_chain returns false whenever any single field (timestamp,
\* event_type, data, previous_hash, entry_hash or chain_hash) of any single
\* entry, the last one included, of a previously valid log has been altered.
C15_AnyAlterationDetected ==
    VerifiedAfterTamper => lastAudit.outcome = "false"

\* C16: when entry k is corrupted and verification fails, the reported failing
\* position is at or after k, never earlier.
C16_FailsAtOrAfterCorruption ==
    (VerifiedAfterTamper /\ lastAudit.outcome = "false") =>
        lastAudit.line >= tampered.line

\* the chain hash of entry k was altered and verification failed at line k + 1
C16_Witness ==
    /\ VerifiedAfterTamper /\ lastAudit.outcome = "false"
    /\ tampered.field = "chain_hash"
    /\ tampered.line > 1
    /\ lastAudit.line = tampered.line + 1

\* C17 (as stated): the chain hash stored on an entry is H(entry hash, previous
\* chain hash) when the entry has a predecessor and the entry hash itself when
\* it has none.
C17_ChainHashOrEntryHash ==
    \A f \in Months : \A i \in DOMAIN log_files[f] :
        LET entry == log_files[f][i]
        IN IF entry.previous_hash # None
           THEN entry.chain_hash =
                   Digest(sha256, ChainPreimage(entry.entry_hash, entry.previous_hash))
           ELSE entry.chain_hash = entry.entry_hash

\* C17 (amended): the chain hash stored on an entry is H(entry hash ":" previous
\* hash) when the entry's previous_hash is not null, and H(entry hash), a hash
\* of the entry hash and not the entry hash itself, when it is null.
C17_ChainHashIsHashed ==
    \A f \in Months : \A i \in DOMAIN log_files[f] :
        LET entry == log_files[f][i]
        IN /\ entry.chain_hash \in DOMAIN sha256
           /\ sha256[entry.chain_hash] =
                 ChainPreimage(entry.entry_hash, entry.previous_hash)
           /\ entry.chain_hash # entry.entry_hash

\* a file holds an entry without predecessor followed by one with a predecessor
C17_Witness ==
    \E f \in Months :
        /\ Len(log_files[f]) >= 2
        /\ log_files[f][1].previous_hash = None
        /\ log_files[f][2].previous_hash = log_files[f][1].chain_hash

\* the first log_event call on a re-created logger succeeded, with entries persisted before
FirstAppendAfterRestart ==
    /\ lastAudit.op = "log_event"
    /\ lastAudit.outcome = "ok"
    /\ lastAudit.first_after_restart
    /\ restarts > 0
    /\ lastAudit.pre_persisted # None

\* C18: chaining continues across restarts: the first entry appended after the
\* logger is re-created has previous_hash equal to the chain_hash of the most
\* recently persisted entry (never reset to empty), and the log still verifies.
C18_RestartContinuesChain ==
    FirstAppendAfterRestart =>
        LET lines == log_files[lastAudit.file]
        IN /\ lines[Len(lines)].previous_hash = lastAudit.pre_persisted
           /\ lines[Len(lines)].previous_hash # None
           /\ verify_chain(lastAudit.file).ok

\* C19: an append is atomic with respect to failure: when the write fails the
\* failure is raised and the in-memory chain hash is unchanged, so that later
\* successful appends still yield a log that verifies.
C19_FailedAppendLeavesChain ==
    /\ (lastAudit.op = "log_event" /\ lastAudit.outcome # "ok") =>
          chain_hash = lastAudit.pre_chain
    /\ (VerifyCalled /\ tampered = NoTamper) => lastAudit.outcome = "true"

\* C20: log_event calls made concurrently for different conversations are
\* serialized: every entry has previous_hash equal to the chain_hash of the
\* entry immediately before it in the file, and verify_chain returns true.
C20_ConcurrentAppendsLinked ==
    \A f \in Months : \A i \in DOMAIN log_files[f] :
        (i > 1 /\ log_files[f][i].data # log_files[f][i - 1].data) =>
            /\ log_files[f][i].previous_hash = log_files[f][i - 1].chain_hash
            /\ verify_chain(f).ok

IsPrefix(s, t) ==
    /\ Len(s) <= Len(t)
    /\ \A i \in DOMAIN s : s[i] = t[i]

\* C21: the audit log is append-only: whatever the logger does (log_event,
\* verify_chain, get_events, close, restart), every entry that was in a file is
\* still there afterwards, unmodified and at the same position, and no file
\* disappears: each earlier log is a prefix of each later log.
C21_AppendOnly ==
    [][/\ file_exists \subseteq file_exists'
       /\ \A f \in Months : IsPrefix(log_files[f], log_files'[f])]_vars

\* after a restart, close() appended the third entry of a file
C21_Witness ==
    /\ restarts > 0
    /\ lastAudit.op = "log_event" /\ lastAudit.outcome = "ok"
    /\ lastAudit.line = 3
    /\ log_files[lastAudit.file][3].event_type = "system_shutdown"

(***************************************************************************)
(* ExtractionEngine: the actions and the claims about deduplication        *)
(***************************************************************************)
\* _extract_iocs(text, context, conversation_id) is called on one engine
ExtractBody(text, conversation_id) ==
    /\ extract_calls < MaxExtractions
    /\ LET r == extract_iocs(text, conversation_id, extracted_iocs)
       IN /\ extracted_iocs' = r.seen
          /\ ioc_history' = ioc_history \o r.iocs
          /\ lastExtract' = [text |-> text, conversation_id |-> conversation_id,
                             iocs |-> r.iocs, seen_before |-> extracted_iocs]
    /\ fed' = [key \in AllKeys |->
                  IF key \in KeysIn(text) THEN fed[key] + 1 ELSE fed[key]]
    /\ extract_calls' = extract_calls + 1

\* _extract_iocs is called on the extraction engine directly
Extract(text, conversation_id) ==
    /\ ExtractBody(text, conversation_id)
    /\ UNCHANGED <<sessionVars, auditVars, guardVars, engineVars, clientVars, tacticVars>>

NextExtract ==
    \E text \in Texts, conversation_id \in Conversations :
        Extract(text, conversation_id)

SpecExtract == InitAudit /\ [][NextExtract]_vars

KeyOf(ioc) == dedup_key(ioc.ioc_type, ioc.match_str)

\* the number of ExtractedIOCs returned so far for a matched string
Yielded(key) ==
    Cardinality({i \in DOMAIN ioc_history : KeyOf(ioc_history[i]) = key})

\* the last call returned nothing for the strings that had been seen before it
SeenReportsNothing ==
    \A i \in DOMAIN lastExtract.iocs :
        KeyOf(lastExtract.iocs[i]) \notin lastExtract.seen_before

\* the type of the first pattern that matches a string
KeyType(key) ==
    IF key.md5.form = "cc91" THEN "bank_account"
    ELSE IF key.md5.kind = "upi" THEN "upi" ELSE "phone"

C23_NormalizedDedup ==
    LET national == dedup_key("phone", Str("phone", "national", PhoneNumber))
        plus91 == dedup_key("phone", Str("phone", "plus91", PhoneNumber))
    IN (fed[national] >= 1 /\ fed[plus91] >= 1) =>
          /\ national = plus91
          /\ \A i, j \in DOMAIN ioc_history :
                (i < j /\ ioc_history[i].ioc_type = "phone"
                       /\ ioc_history[j].ioc_type = "phone") =>
                   ioc_history[i].value # ioc_history[j].value


\* the messages explored
EngineMessages ==
    { EngineMessage({}, 1, <<>>, FALSE, FALSE),
      EngineMessage(ScenarioMessage.hits, ScenarioMessage.words,
                    <<Str("upi", "lower", "prizewinner@upi")>>, FALSE, FALSE),
      EngineMessage({}, 4, <<>>, FALSE, TRUE) }

\* the sources sessions are asked for
EngineSources == {<<"incoming_sms">>, <<"outbound_", "call">>}

\* MemoryManager.store: the INSERT succeeds or sqlite3 raises
StoreOutcomes == {"ok", "store_fails"}

\* what the language model does when asked: it fails, or it generates text in
\* which the guard's patterns find nothing, or an AI reveal, or forbidden words
LLMReplies ==
    {[llm |-> "failed", content |-> {}]}
    \cup {[llm |-> "generated", content |-> c] : c \in {{}, {"ai_reveal"}, {"forbidden"}}}

\* what opening and writing the log file does under the engine
EngineWriteOutcomes == {"ok", "open_fails"}

\* the text of the response route returned: only text the language model
\* generated can hold what validate_output looks for
generated_reply(r, content) ==
    Reply(r.response.source, r.response.category,
          IF r.response.source = "cortex" THEN content ELSE {})

\* ExtractionEngine.extract, line 143: results if (iocs or tactics) else None
extract_returns_results(iocs, m) == iocs # <<>> \/ m.tactics

deliver_generated(response, output_ok) == response

\* get_response, lines 242-244: the reply that goes on to the caller
deliver(response, output_ok) ==
    IF output_ok THEN response ELSE SafeReply

create_session_register_first(source, registry, history) ==
    LET g == validate_incoming_source(source, history)
    IN [raised |-> ~g.ret, sessions |-> Append(registry, source),
        history |-> g.history]

\* create_session, lines 207-214: the source is checked before the session is
\* built and registered
create_session(source, registry, history) ==
    LET g == validate_incoming_source(source, history)
    IN IF ~g.ret
       THEN [raised |-> TRUE, sessions |-> registry, history |-> g.history]
       ELSE [raised |-> FALSE, sessions |-> Append(registry, source),
             history |-> g.history]


(***************************************************************************)
(* ConstitutionalAI: the validators called on one guard                    *)
(***************************************************************************)
ValidateIncomingSource(source) ==
    /\ Len(violation_history) < MaxChecks
    /\ LET g == validate_incoming_source(source, violation_history)
       IN /\ violation_history' = g.history
          /\ lastGuard' = GuardCall("validate_incoming_source", source, g.ret, g.check,
                                    violation_history)
    /\ UNCHANGED <<sessionVars, auditVars, extractVars, engineVars, clientVars, tacticVars>>

ValidateInput(m) ==
    /\ Len(violation_history) < MaxChecks
    /\ LET g == validate_input(m, violation_history)
       IN /\ violation_history' = g.history
          /\ lastGuard' = GuardCall("validate_input", m.illegal, g.ret, g.check,
                                    violation_history)
    /\ UNCHANGED <<sessionVars, auditVars, extractVars, engineVars, clientVars, tacticVars>>

ValidateOutput(content) ==
    /\ Len(violation_history) < MaxChecks
    /\ LET g == validate_output(content, violation_history)
       IN /\ violation_history' = g.history
          /\ lastGuard' = GuardCall("validate_output", content, g.ret, g.check,
                                    violation_history)
    /\ UNCHANGED <<sessionVars, auditVars, extractVars, engineVars, clientVars, tacticVars>>

\* validate_conversation_state(session) on the session followed
ValidateConversationState ==
    /\ LET g == validate_conversation_state(violation_history)
       IN /\ violation_history' = g.history
          /\ lastGuard' = GuardCall("validate_conversation_state", <<>>, g.check.passed,
                                    g.check, violation_history)
    /\ UNCHANGED <<sessionVars, auditVars, extractVars, engineVars, clientVars, tacticVars>>

\* the moments at which the guard is asked about the session: the phase was
\* entered at the creation of the session or EntryLate seconds later, and the
\* session has been in it for one of TimesInState seconds
EntryLate == 2000
EntryTimes == {0, EntryLate}
TimesInState == {0, max_duration - EntryLate + 1, max_duration, max_duration + 1}

\* the numbers of truthy entries of extraction_data explored
ExtractionCounts == {0, max_extraction_count, max_extraction_count + 1}

\* a guard and a session that was created at time 0, has been driven to some
\* phase and has collected some extraction data
InitGuard ==
    /\ current_state \in State
    /\ previous_states = HistoryTo[current_state]
    /\ transition_count = Len(previous_states)
    /\ state_entry_time \in IF current_state = IDLE THEN {0} ELSE EntryTimes
    /\ max_transitions = DefaultMaxTransitions
    /\ entry_hooks = SessionHooks
    /\ exit_hooks = NoHooks
    /\ hooks_registered = 2
    /\ now \in {state_entry_time + d : d \in TimesInState}
    /\ lastCall = NoCall
    /\ message = NoMessage
    /\ decision = NoDecision
    /\ routed = NoRoute
    /\ cortex_history = <<>>
    /\ AuditInit
    /\ ExtractInit
    /\ GuardInit
    /\ sessions = <<>>
    /\ message_count = 0
    /\ created_at = 0
    /\ extraction_data \in {1..n : n \in ExtractionCounts}
    /\ engine_pc = "idle"
    /\ lastEngine = NoEngineCall
    /\ ClientInit

NextGuard ==
    \/ \E source \in Sources : ValidateIncomingSource(source)
    \/ \E m \in EngineMessages : ValidateInput(m)
    \/ \E content \in Contents : ValidateOutput(content)
    \/ ValidateConversationState

SpecGuard == InitGuard /\ [][NextGuard]_vars

GuardCalled(op) == lastGuard.op = op

\* the source begins with the tag of an inbound channel or with a test or mock
\* prefix
InboundTagged(source) ==
    /\ source # <<>>
    /\ lower_part(source[1]) \in
          {"incoming_call", "incoming_sms", "incoming_email", "incoming_chat",
           "test_", "mock_"}

\* C25: validate_incoming_source returns true for a source tagged as inbound
\* (incoming_*, test or mock prefix) and leaves the violation history as it was;
\* for every other source it returns false and appends exactly one failed check
\* of type initiation and severity critical
C25_InboundSourcesOnly ==
    GuardCalled("validate_incoming_source") =>
        IF InboundTagged(lastGuard.arg)
        THEN /\ lastGuard.ret
             /\ violation_history = lastGuard.pre_history
        ELSE /\ ~lastGuard.ret
             /\ violation_history =
                   Append(lastGuard.pre_history,
                          ConstitutionalCheck(FALSE, "initiation", "critical"))

\* C27 as stated: every result of a validator, pass or fail, is appended to the
\* violation history
C27_EveryCheckRecorded ==
    ~GuardCalled("none") =>
        violation_history = Append(lastGuard.pre_history, lastGuard.check)

\* C27: a validator appends its check to the violation history exactly when the
\* check failed in validate_incoming_source, validate_input or validate_output;
\* a passed check and every result of validate_conversation_state leave the
\* history as it was
C27_OnlyFailuresRecorded ==
    ~GuardCalled("none") =>
        violation_history =
            IF ~lastGuard.ret /\ ~GuardCalled("validate_conversation_state")
            THEN Append(lastGuard.pre_history, lastGuard.check)
            ELSE lastGuard.pre_history

\* a response passed validate_output after an earlier check had failed, and the
\* history holds the failure only
C27_Witness ==
    /\ GuardCalled("validate_output")
    /\ lastGuard.ret
    /\ lastGuard.pre_history # <<>>
    /\ violation_history = lastGuard.pre_history

\* the time since the session was created
conversation_duration == now - created_at

\* C30: validate_conversation_state returns a failed check of severity medium
\* when the conversation has lasted longer than the maximum duration or holds
\* more than the allowed number of extraction facts, a passed check otherwise,
\* and leaves phase, transition count and phase history unchanged
C30_FlagsOnly ==
    GuardCalled("validate_conversation_state") =>
        /\ IF \/ conversation_duration > max_duration
              \/ Cardinality(extraction_data) > max_extraction_count
           THEN ~lastGuard.check.passed /\ lastGuard.check.severity = "medium"
           ELSE lastGuard.check.passed
        /\ lastGuard.pre_session = <<current_state, transition_count, previous_states>>

(***************************************************************************)
(* GhostWireEngine: create_session and get_response.  A call that reaches  *)
(* the audit logger goes on in a further step, so that the log_event call  *)
(* is the logger's own action with its own outcome.  The two hooks of a    *)
(* session (a logger.info call; asyncio.create_task on the running loop)   *)
(* do not raise.  message, decision and routed, which record what the      *)
(* router was asked alone, are left as they are.                           *)
(***************************************************************************)
SessionIds == <<"s1", "s2", "s3", "s4">>

\* the log entries persisted so far, over all files
audit_entries == LinesUpTo(MaxMonth)

StartCall(op, session, source) ==
    [NoEngineCall EXCEPT !.op = op, !.done = FALSE, !.session = session,
                         !.source = source, !.pre_sessions = sessions,
                         !.pre_entries = audit_entries,
                         !.pre_extract_calls = extract_calls,
                         !.pre_extraction_data = extraction_data,
                         !.pre_phase = current_state,
                         !.pre_violations = Len(violation_history)]

\* create_session(source), lines 205-214
CreateSession(source) ==
    /\ engine_pc = "idle"
    /\ Len(violation_history) < MaxChecks
    /\ log_events < MaxAppends
    /\ Len(create_session(source, sessions, violation_history).sessions) <= MaxSessions
    /\ LET c == create_session(source, sessions, violation_history)
           g == validate_incoming_source(source, violation_history)
           call == StartCall("create_session", Len(sessions) + 1, source)
       IN /\ violation_history' = c.history
          /\ lastGuard' = GuardCall("validate_incoming_source", source, g.ret, g.check,
                                    violation_history)
          /\ sessions' = c.sessions
          /\ created_at' = IF ~c.raised /\ sessions = <<>> THEN now ELSE created_at
          /\ IF c.raised
             THEN /\ engine_pc' = "idle"
                  /\ lastEngine' = [call EXCEPT !.done = TRUE, !.raised = TRUE,
                                                !.session = UnknownSession]
             ELSE /\ engine_pc' = "log_session_created"
                  /\ lastEngine' = call
    /\ UNCHANGED <<sessionVars, auditVars, extractVars, message_count, extraction_data,
                   clientVars, tacticVars>>

\* get_response(session_id, message), lines 225-239, with process_message,
\* lines 63-102, and _extract_intelligence: llm and content are what the
\* language model does when asked, store what MemoryManager.store does.
\* json is not imported in engine.py, so json.dumps at line 120 raises NameError
\* whenever extract returned results, before extraction_data is updated.
GetResponse(session_id, m, llm, content, store) ==
    /\ engine_pc = "idle"
    /\ Len(violation_history) < MaxChecks
    /\ log_events < MaxAppends
    /\ extract_calls < MaxExtractions
    /\ message_count < MaxMessages
    /\ LET call == StartCall("get_response", session_id, <<>>)
           g == validate_input(m, violation_history)
       IN IF session_id \notin DOMAIN sessions
          THEN /\ lastEngine' = [call EXCEPT !.done = TRUE]
               /\ engine_pc' = "idle"
               /\ UNCHANGED <<sessionVars, extractVars, guardVars, message_count>>
          ELSE IF ~g.ret
          THEN /\ violation_history' = g.history
               /\ lastGuard' = GuardCall("validate_input", m.illegal, g.ret, g.check,
                                         violation_history)
               /\ lastEngine' = [call EXCEPT !.done = TRUE, !.input_ok = FALSE]
               /\ engine_pc' = "idle"
               /\ UNCHANGED <<sessionVars, extractVars, message_count>>
          ELSE /\ violation_history' = g.history
               /\ lastGuard' = GuardCall("validate_input", m.illegal, g.ret, g.check,
                                         violation_history)
               /\ message_count' = message_count + 1
               /\ IF store = "store_fails"
                  THEN /\ lastEngine' = call
                       /\ engine_pc' = "log_error"
                       /\ UNCHANGED <<sessionVars, extractVars>>
                  ELSE LET r == route([hits |-> m.hits, words |-> m.words], llm)
                           e == extract_iocs(m.text, SessionIds[session_id],
                                             extracted_iocs)
                           extracts == should_extract
                           raises == extracts /\ extract_returns_results(e.iocs, m)
                       IN /\ cortex_history' =
                                IF r.history_update
                                THEN update_history(cortex_history,
                                                    [hits |-> m.hits, words |-> m.words])
                                ELSE cortex_history
                          /\ IF r.self_transition
                             THEN TransitionBody("transition", get_current_state, {})
                             ELSE UNCHANGED <<fsmVars, lastCall>>
                          /\ IF extracts
                             THEN ExtractBody(m.text, SessionIds[session_id])
                             ELSE UNCHANGED extractVars
                          /\ lastEngine' =
                                [call EXCEPT !.processed = ~raises,
                                             !.extracted = extracts,
                                             !.generated = generated_reply(r, content)]
                          /\ engine_pc' = IF raises THEN "log_error"
                                          ELSE "check_termination"
                          /\ UNCHANGED <<max_transitions, hookVars, now, message,
                                         decision, routed>>
    /\ UNCHANGED <<auditVars, sessions, created_at, extraction_data, clientVars,
                   tacticVars>>

\* the rest of process_message and get_response up to the audit call:
\* _check_termination_conditions, lines 127-138, then validate_output and the
\* substitution of lines 242-244
CheckTermination ==
    /\ engine_pc = "check_termination"
    /\ IF message_count > 100 \/ now - created_at > 3600
       THEN IF ~is_terminal
            THEN TransitionBody("force_termination", TERMINATION, {})
            ELSE /\ UNCHANGED fsmVars
                 /\ lastCall' = CallRecord("force_termination", TERMINATION, FALSE, <<>>)
       ELSE UNCHANGED <<fsmVars, lastCall>>
    /\ LET g == validate_output(lastEngine.generated.content, violation_history)
       IN /\ violation_history' = g.history
          /\ lastGuard' = GuardCall("validate_output", lastEngine.generated.content,
                                    g.ret, g.check, violation_history)
          /\ lastEngine' = [lastEngine EXCEPT
                               !.output_ok = g.ret,
                               !.ret = deliver(lastEngine.generated, g.ret)]
    /\ engine_pc' = "log_message_exchanged"
    /\ UNCHANGED <<max_transitions, hookVars, now, routerVars, auditVars, extractVars,
                   sessions, message_count, created_at, extraction_data, clientVars,
                   tacticVars>>

engine_event_untyped ==
    [event_type |-> "error", data |-> SessionIds[lastEngine.session]]

\* the event the call in progress hands to the audit logger
engine_event ==
    [event_type |-> CASE engine_pc = "log_session_created" -> "session_created"
                      [] engine_pc = "log_message_exchanged" -> "message_exchanged"
                      [] OTHER -> "error",
     data |-> SessionIds[lastEngine.session]]

\* audit_logger.log_event at lines 217, 246 and 256, and what follows it: the
\* return of the call, the except clause of line 254 when line 246 raised, or
\* the exception leaving the call when line 217 or line 256 raised
EngineLogEvent(outcome) ==
    /\ engine_pc \in {"log_session_created", "log_message_exchanged", "log_error"}
    /\ LogEventBody(engine_event, outcome)
    /\ IF outcome = "ok"
       THEN /\ engine_pc' = "idle"
            /\ lastEngine' = [lastEngine EXCEPT
                                 !.done = TRUE,
                                 !.ret = IF engine_pc = "log_error" THEN ErrorReply
                                         ELSE lastEngine.ret]
       ELSE IF engine_pc = "log_message_exchanged"
       THEN /\ engine_pc' = "log_error"
            /\ lastEngine' = lastEngine
       ELSE /\ engine_pc' = "idle"
            /\ lastEngine' = [lastEngine EXCEPT !.done = TRUE, !.raised = TRUE,
                                                !.ret = NoReply]
    /\ UNCHANGED <<sessionVars, extractVars, guardVars, sessions, message_count,
                   created_at, extraction_data, clientVars, tacticVars>>

\* the phases the conversation followed is moved through
DrivenPath == <<INITIAL_CONTACT, SUSPICION_AROUSAL, EXTRACTION, TERMINATION>>

\* the conversation is moved on to its next phase, between calls
DriveSession(target_state) ==
    /\ engine_pc = "idle"
    /\ sessions # <<>>
    /\ transition_count < Len(DrivenPath)
    /\ target_state = DrivenPath[transition_count + 1]
    /\ TransitionBody("transition", target_state, {})
    /\ UNCHANGED <<max_transitions, hookVars, now, routerVars, auditVars, serviceVars>>

\* an engine with no session, whose sessions get the default ceiling and the
\* two entry hooks of _setup_state_handlers
InitEngine ==
    /\ current_state = IDLE
    /\ previous_states = <<>>
    /\ state_entry_time = 0
    /\ transition_count = 0
    /\ max_transitions = DefaultMaxTransitions
    /\ entry_hooks = SessionHooks
    /\ exit_hooks = NoHooks
    /\ hooks_registered = 2
    /\ now = 0
    /\ lastCall = NoCall
    /\ message = NoMessage
    /\ decision = NoDecision
    /\ routed = NoRoute
    /\ cortex_history = <<>>
    /\ AuditInit
    /\ ServiceInit

NextEngine ==
    \/ \E source \in EngineSources : CreateSession(source)
    \/ \E session_id \in {1, UnknownSession}, m \in EngineMessages, reply \in LLMReplies,
          store \in StoreOutcomes :
          GetResponse(session_id, m, reply.llm, reply.content, store)
    \/ CheckTermination
    \/ \E outcome \in EngineWriteOutcomes : EngineLogEvent(outcome)
    \/ \E target_state \in State : DriveSession(target_state)

SpecEngine == InitEngine /\ [][NextEngine]_vars

(***************************************************************************)
(* Claims about the engine (checked under SpecEngine)                      *)
(***************************************************************************)
EngineCalled(op) == lastEngine.op = op /\ lastEngine.done

\* get_response found the session and the input passed: process_message ran
Processing ==
    /\ lastEngine.op = "get_response"
    /\ lastEngine.session \in DOMAIN lastEngine.pre_sessions
    /\ lastEngine.input_ok

ExtractionPhases == {SUSPICION_AROUSAL, EXTRACTION}

\* C24: process_message invokes the extraction engine only when should_extract()
\* holds at that point; when the phase is neither SuspicionArousal nor Extraction,
\* processing a message extracts nothing and leaves extraction_data as it was
C24_ExtractionOnlyWhenShouldExtract ==
    Processing =>
        /\ extract_calls # lastEngine.pre_extract_calls
              => lastEngine.pre_phase \in ExtractionPhases
        /\ lastEngine.pre_phase \notin ExtractionPhases
              => /\ extract_calls = lastEngine.pre_extract_calls
                 /\ ~lastEngine.extracted
                 /\ extraction_data = lastEngine.pre_extraction_data

\* a message was processed in SuspicionArousal and the extraction engine was
\* called once for it
C24_Witness ==
    /\ Processing
    /\ lastEngine.done
    /\ lastEngine.pre_phase = SUSPICION_AROUSAL
    /\ lastEngine.extracted
    /\ extract_calls = lastEngine.pre_extract_calls + 1

SourcePasses(source) == validate_incoming_source(source, <<>>).ret

\* C26: every registered session was created from a source that passes
\* validate_incoming_source, and create_session with a rejected source raises
\* and leaves the sessions as they were
C26_NeverInitiator ==
    /\ \A i \in DOMAIN sessions : SourcePasses(sessions[i])
    /\ (lastEngine.op = "create_session" /\ ~SourcePasses(lastEngine.source))
          => /\ lastEngine.done
             /\ lastEngine.raised
             /\ sessions = lastEngine.pre_sessions

\* create_session("outbound_call") raised while a session was registered, and
\* the registry is as before
C26_Witness ==
    /\ EngineCalled("create_session")
    /\ lastEngine.source = <<"outbound_", "call">>
    /\ lastEngine.raised
    /\ sessions # <<>>
    /\ sessions = lastEngine.pre_sessions

\* the last line of the log file in use
last_entry == log_files[current_log_file][Len(log_files[current_log_file])]

EngineAudit ==
    /\ EngineCalled("create_session") =>
          IF ~SourcePasses(lastEngine.source) \/ lastEngine.raised
          THEN audit_entries = lastEngine.pre_entries
          ELSE /\ audit_entries = lastEngine.pre_entries + 1
               /\ last_entry.event_type = "session_created"
               /\ last_entry.data = SessionIds[lastEngine.session]
    /\ EngineCalled("get_response") =>
          IF ~Processing \/ lastEngine.raised
          THEN audit_entries = lastEngine.pre_entries
          ELSE /\ audit_entries = lastEngine.pre_entries + 1
               /\ last_entry.data = SessionIds[lastEngine.session]
               /\ last_entry.event_type =
                     IF lastEngine.ret = ErrorReply THEN "error"
                     ELSE "message_exchanged"

OutputBlocked == EngineCalled("get_response") /\ ~lastEngine.output_ok

C39_HistoryMatchesCount ==
    /\ Len(previous_states) = transition_count
    /\ previous_states # <<>> => previous_states[1] = IDLE
    /\ IF Accepted
       THEN /\ previous_states = Append(lastCall.pre_history, lastCall.pre_state)
            /\ previous_states[Len(previous_states)] = lastCall.pre_state
            /\ transition_count = lastCall.pre_count + 1
       ELSE /\ previous_states = lastCall.pre_history
            /\ transition_count = lastCall.pre_count

\* a forced termination was the third successful transition of a conversation
C39_Witness ==
    /\ lastCall.op = "force_termination" /\ lastCall.ret
    /\ transition_count = 3
    /\ previous_states[3] = lastCall.pre_state
    /\ lastCall.pre_state # IDLE

(***************************************************************************)
(* Properties of BrainRouter.route (checked under SpecRouter)              *)
(***************************************************************************)
\* C37: routing a message never changes the session's current phase: whatever
\* the phase, the message and the routing outcome (fast, upgraded, escalated,
\* fallback), the phase after BrainRouter.route is the phase before it, also
\* when _log_response asks the state machine for the self-transition of a
\* financial fast-path response.
C37_RouteKeepsPhase ==
    [][current_state' = current_state]_vars

\* the self-transition was asked for and rejected below the ceiling, or accepted
\* at the ceiling, in Termination
C37_Witness ==
    /\ routed # NoRoute /\ routed.self_transition
    /\ lastCall.op = "transition" /\ lastCall.target = lastCall.pre_state
    /\ \/ ~lastCall.ret /\ current_state = INITIAL_CONTACT
       \/ lastCall.ret /\ current_state = TERMINATION

AcceptedBySomePattern(str) ==
    \E p \in DOMAIN IocPatternOrder :
        /\ \E j \in DOMAIN findall(IocPatternOrder[p], str) :
              findall(IocPatternOrder[p], str)[j] = str
        /\ clean_ioc(IocPatternType[IocPatternOrder[p]], str) # NoValue

\* C40: deduplication never loses a valid indicator: a matched string that some
\* pattern's normalisation accepts is recorded as seen only when an IOC is
\* reported for it, so its rejection under one pattern's kind does not keep the
\* same string, matched by another pattern that accepts it, from being reported.
C40_NoValidIndicatorLost ==
    \A key \in extracted_iocs :
        AcceptedBySomePattern(key.md5) => Yielded(key) >= 1

(***************************************************************************)
(* ExtractionEngine._extract_tactics (src/extraction/patterns.py)          *)
(*                                                                         *)
(* A message is the set of pieces of text that occur in it, each as it is  *)
(* written: in small letters or in capitals.  A keyword is a piece of text *)
(* as it is written in the source.                                         *)
(***************************************************************************)
\* the largest number of pieces of text explored in one message
MaxFragments == 3

\* str.lower()
lower_text(w) == Written(w.body, FALSE)

TacticGroup(tactic, category, confidence, keywords) ==
    [tactic |-> tactic, category |-> category, confidence |-> confidence,
     keywords |-> keywords]

Small(words) == [i \in DOMAIN words |-> Written(words[i], FALSE)]

\* urgency_indicators, authority_indicators and social_indicators, in the order
\* they are gone through; confidences in hundredths
TacticGroups ==
    << TacticGroup("immediate_action", "urgency", 80,
          Small(<<"immediately", "right now", "urgent", "asap", "hurry">>)),
       TacticGroup("time_pressure", "urgency", 80,
          Small(<<"24 hours", "today only", "last chance", "deadline", "expires">>)),
       TacticGroup("scarcity", "urgency", 80,
          Small(<<"limited spots", "only few left", "exclusive offer",
                  "special selection">>)),
       TacticGroup("government_impersonation", "authority_abuse", 85,
          Small(<<"government", "ministry", "tax department">>)
          \o <<Written(" rbi ", TRUE), Written("trai", TRUE)>>),
       TacticGroup("bank_impersonation", "authority_abuse", 85,
          Small(<<"bank manager", "account frozen", "suspicious transaction">>)
          \o <<Written("kyc", TRUE)>>),
       TacticGroup("police_threat", "authority_abuse", 85,
          Small(<<"police", "arrest warrant", "legal action", "court", "fir">>)),
       TacticGroup("trust_building", "social_engineering", 75,
          Small(<<"trust me", "don't worry", "i'm here to help", "your friend">>)),
       TacticGroup("relationship_exploit", "social_engineering", 75,
          Small(<<"your son", "your family", "emergency", "accident", "hospital">>)),
       TacticGroup("reciprocity", "social_engineering", 75,
          Small(<<"free gift", "as a favor", "special for you", "only for you">>)) >>

\* msg_lower = message.lower(): the pieces of text that occur in it
msg_lower(msg) == {lower_text(w) : w \in msg}

\* `kw in msg_lower`: the keyword, as written in the list, occurs in msg_lower
keyword_found(kw, msg) == kw \in msg_lower(msg)

\* [kw for kw in keywords if kw in msg_lower]
indicators_found(keywords, msg) ==
    SelectSeq(keywords, LAMBDA kw : keyword_found(kw, msg))

\* _extract_tactics(message): one entry per group with `any(kw in msg_lower ...)`
extract_tactics(msg) ==
    LET hit(g) == \E i \in DOMAIN g.keywords : keyword_found(g.keywords[i], msg)
        entry(g) == [tactic |-> g.tactic, category |-> g.category,
                     confidence |-> g.confidence,
                     indicators_found |-> indicators_found(g.keywords, msg)]
        found == SelectSeq(TacticGroups, hit)
    IN [i \in DOMAIN found |-> entry(found[i])]

\* the pieces of text the explored messages are made of
Fragments ==
    { Written("urgent", FALSE), Written("urgent", TRUE), Written("hurry", FALSE),
      Written("deadline", FALSE), Written("kyc", TRUE), Written("kyc", FALSE),
      Written("trai", TRUE), Written("police", FALSE), Written("fir", FALSE),
      Written("trust me", FALSE), Written("hello", FALSE) }

TacticMessages == {m \in SUBSET Fragments : Cardinality(m) <= MaxFragments}

\* _extract_tactics is called on a message
ExtractTactics(m) ==
    /\ lastTactics' = [message |-> m, tactics |-> extract_tactics(m)]
    /\ UNCHANGED <<sessionVars, auditVars, extractVars, guardVars, engineVars,
                   clientVars>>

NextTactics == \E m \in TacticMessages : ExtractTactics(m)

SpecTactics == InitAudit /\ [][NextTactics]_vars

\* the message contains the keyword, in whatever case it is written
Contains(msg, kw) ==
    \E w \in msg : lower_text(w) = lower_text(kw)

\* C35: tactic extraction returns an entry for a keyword group exactly when the
\* message contains at least one keyword of the group, the entry lists exactly
\* the keywords of the group that occur in the message, and each group has at
\* most one entry, whatever the other groups found.
C35_EveryGroupWithAHit ==
    LET m == lastTactics.message
        entries(g) == {i \in DOMAIN lastTactics.tactics :
                          lastTactics.tactics[i].tactic = g.tactic}
        occurring(g) == {g.keywords[k] : k \in {j \in DOMAIN g.keywords :
                                                   Contains(m, g.keywords[j])}}
    IN \A n \in DOMAIN TacticGroups :
          LET g == TacticGroups[n]
          IN /\ Cardinality(entries(g)) = IF occurring(g) # {} THEN 1 ELSE 0
             /\ \A i \in entries(g) :
                   Range(lastTactics.tactics[i].indicators_found) = occurring(g)

\* C33: access to the shared dedup set is synchronized: extract and
\* _extract_iocs contain no await, so extractions of different conversations on
\* one event loop run one after the other, in any order (the orders of Extract
\* steps); under every such interleaving an indicator value is reported by at
\* most one of the conversations' extractions.
C33_OneReporterPerValue ==
    \A i, j \in DOMAIN ioc_history :
        ioc_history[i].source_conversation # ioc_history[j].source_conversation =>
            ioc_history[i].value # ioc_history[j].value

(***************************************************************************)
(* Concurrent get_response calls on one event loop.                        *)
(*                                                                         *)
(* Coroutines run one at a time and give up the loop only where they await *)
(* something that is not ready: on the escalate path that is the HTTP call *)
(* of check_ollama, the HTTP call of _generate_ollama and the executor     *)
(* call of _generate_hf.  engine_pc and lastEngine describe the call that  *)
(* holds the loop, suspended the calls waiting for the language model.     *)
(***************************************************************************)
\* the largest number of calls suspended at the same time
MaxTasks == 2

\* the messages explored: no pattern; a legal threat (urgency 0.8, escalated); a
\* payment request with a UPI id (fast path, category financial)
TaskMessages ==
    { EngineMessage({}, 1, <<>>, FALSE, FALSE),
      EngineMessage({"threat_legal"}, 5, <<>>, FALSE, FALSE),
      EngineMessage({"request_payment"}, 6,
                    <<Str("upi", "lower", "prizewinner@upi")>>, FALSE, FALSE) }

\* the number of messages a session has processed when it is picked up
ProcessedBefore == {0, 100}

RouterMessage(m) == [hits |-> m.hits, words |-> m.words]

\* route reaches `await self.cortex.generate_response` (router.py:85)
escalates(m) == route(RouterMessage(m), "failed").brain = "cortex"

\* LocalLLMClient.generate, lines 76-81, with the default fallback.enabled:
\* where the call first waits
first_wait ==
    CASE ollama_available = "None" -> "check_ollama"
      [] ollama_available = "True" -> "ollama"
      [] OTHER -> "hf"

\* check_ollama, lines 43-62: _ollama_available after the GET of /api/tags
\* answered with a status, or raised (its timeout of 5 s included)
check_ollama(status) == IF status = "200" THEN "True" ELSE "False"

\* _generate_ollama, lines 106-126: a status other than 200 raises RuntimeError,
\* the timeout of ClientTimeout(total=self.timeout) raises TimeoutError, and
\* after a 200 line 118 reads time and start_time, which are names of generate's
\* scope and not of this function or of the module: NameError
generate_ollama(outcome) ==
    CASE outcome = "status_error" -> "failed"
      [] outcome = "timeout" -> "failed"
      [] OTHER -> "failed"

\* _generate_hf, lines 134-168: loading or running the pipeline raises, or the
\* pipeline returns and line 155 reads time and start_time: NameError
generate_hf(outcome) ==
    CASE outcome = "raises" -> "failed"
      [] OTHER -> "failed"

\* process_message after route returned r, lines 86-102, with
\* _extract_intelligence (json is not imported: NameError at line 120)
AfterRoute(call, m, r, content) ==
    LET conversation_id == SessionIds[call.session]
        e == extract_iocs(m.text, conversation_id, extracted_iocs)
        extracts == should_extract
        raises == extracts /\ extract_returns_results(e.iocs, m)
    IN /\ cortex_history' = IF r.history_update
                            THEN update_history(cortex_history, RouterMessage(m))
                            ELSE cortex_history
       /\ IF r.self_transition
          THEN TransitionBody("transition", log_response_target, {})
          ELSE UNCHANGED <<fsmVars, lastCall>>
       /\ IF extracts
          THEN ExtractBody(m.text, conversation_id)
          ELSE UNCHANGED extractVars
       /\ lastEngine' = [call EXCEPT !.processed = ~raises, !.extracted = extracts,
                                     !.generated = generated_reply(r, content)]
       /\ engine_pc' = IF raises THEN "log_error" ELSE "check_termination"

Suspended(call, m, reason, at) ==
    [call |-> call, m |-> m, reason |-> reason, at |-> at,
     message_count |-> message_count + 1, phase |-> current_state]

\* get_response(session_id, message) is called while no coroutine holds the
\* loop: lines 225-239 and process_message up to the first await that is not
\* ready, or up to the termination check when route takes the fast path
BeginResponse(session_id, m) ==
    /\ engine_pc = "idle"
    /\ Len(suspended) < MaxTasks
    /\ Len(violation_history) < MaxChecks
    /\ log_events + Len(suspended) < MaxAppends
    /\ extract_calls + Len(suspended) < MaxExtractions
    /\ LET call == StartCall("get_response", session_id, <<>>)
           g == validate_input(m, violation_history)
       IN IF session_id \notin DOMAIN sessions
          THEN /\ lastEngine' = [call EXCEPT !.done = TRUE]
               /\ engine_pc' = "idle"
               /\ UNCHANGED <<sessionVars, extractVars, guardVars, message_count,
                              suspended>>
          ELSE /\ violation_history' = g.history
               /\ lastGuard' = GuardCall("validate_input", m.illegal, g.ret, g.check,
                                         violation_history)
               /\ IF ~g.ret
                  THEN /\ lastEngine' = [call EXCEPT !.done = TRUE, !.input_ok = FALSE]
                       /\ engine_pc' = "idle"
                       /\ UNCHANGED <<sessionVars, extractVars, message_count, suspended>>
                  ELSE /\ message_count' = message_count + 1
                       /\ IF escalates(m)
                          THEN /\ suspended' =
                                     Append(suspended,
                                            Suspended(call, m,
                                               route(RouterMessage(m), "failed").reason,
                                               first_wait))
                               /\ lastEngine' = call
                               /\ engine_pc' = "idle"
                               /\ UNCHANGED <<fsmVars, lastCall, cortex_history,
                                              extractVars>>
                          ELSE /\ AfterRoute(call, m, route(RouterMessage(m), "failed"), {})
                               /\ UNCHANGED suspended
                       /\ UNCHANGED <<max_transitions, hookVars, now, message, decision,
                                      routed>>
    /\ UNCHANGED <<auditVars, sessions, created_at, extraction_data, ollama_available,
                   tacticVars>>

Without(seq, k) == [i \in 1..(Len(seq) - 1) |-> IF i < k THEN seq[i] ELSE seq[i + 1]]

\* the GET of check_ollama answered or raised: the call goes on to the backend
CheckOllamaReturns(k, status) ==
    /\ engine_pc = "idle"
    /\ k \in DOMAIN suspended
    /\ suspended[k].at = "check_ollama"
    /\ ollama_available' = check_ollama(status)
    /\ suspended' = [suspended EXCEPT
                        ![k].at = IF check_ollama(status) = "True" THEN "ollama" ELSE "hf"]
    /\ UNCHANGED <<sessionVars, auditVars, extractVars, guardVars, engineVars, tacticVars>>

\* the language model call of a suspended get_response ended with llm: the rest
\* of CortexBrain.generate_response and of route (lines 93-94), then
\* process_message up to the termination check
Resume(k, llm) ==
    /\ engine_pc = "idle"
    /\ k \in DOMAIN suspended
    /\ LET rec == suspended[k]
       IN AfterRoute(rec.call, rec.m, CortexPath("cortex", rec.reason, llm), {})
    /\ suspended' = Without(suspended, k)
    /\ UNCHANGED <<max_transitions, hookVars, now, message, decision, routed, auditVars,
                   guardVars, sessions, message_count, created_at, extraction_data,
                   ollama_available, tacticVars>>

\* the POST of _generate_ollama ended, at the latest with its timeout
OllamaReturns(k, outcome) ==
    /\ k \in DOMAIN suspended
    /\ suspended[k].at = "ollama"
    /\ Resume(k, generate_ollama(outcome))

\* the pipeline run by run_in_executor ended; nothing bounds the wait
HFReturns(k, outcome) ==
    /\ k \in DOMAIN suspended
    /\ suspended[k].at = "hf"
    /\ Resume(k, generate_hf(outcome))

\* an engine with one session, followed from the moment it has processed
\* message_count messages: nothing in the engine moves a session out of Idle,
\* no language model call succeeded, and the audit log and the extraction
\* history are those written from that moment on
InitTasks ==
    /\ current_state = IDLE
    /\ previous_states = <<>>
    /\ transition_count = 0
    /\ state_entry_time = 0
    /\ max_transitions = DefaultMaxTransitions
    /\ entry_hooks = SessionHooks
    /\ exit_hooks = NoHooks
    /\ hooks_registered = 2
    /\ now = 0
    /\ lastCall = NoCall
    /\ message = NoMessage
    /\ decision = NoDecision
    /\ routed = NoRoute
    /\ cortex_history = <<>>
    /\ AuditInit
    /\ ExtractInit
    /\ GuardInit
    /\ sessions = << <<"incoming_sms">> >>
    /\ message_count \in ProcessedBefore
    /\ created_at = 0
    /\ extraction_data = {}
    /\ engine_pc = "idle"
    /\ lastEngine = NoEngineCall
    /\ ClientInit

NextTasks ==
    \/ \E m \in TaskMessages : BeginResponse(1, m)
    \/ \E k \in 1..MaxTasks, status \in {"200", "503", "raises"} :
          CheckOllamaReturns(k, status)
    \/ \E k \in 1..MaxTasks, outcome \in {"status_200", "status_error", "timeout"} :
          OllamaReturns(k, outcome)
    \/ \E k \in 1..MaxTasks, outcome \in {"returns", "raises"} : HFReturns(k, outcome)
    \/ CheckTermination
    \/ EngineLogEvent("ok")

SpecTasks == InitTasks /\ [][NextTasks]_vars

\* the get_response calls that have started and not returned
InProgress == Len(suspended) + (IF engine_pc = "idle" THEN 0 ELSE 1)

C36_TerminatedAboveLimit ==
    (/\ lastEngine.op = "get_response"
     /\ lastEngine.done
     /\ lastEngine.processed
     /\ message_count > 100) => current_state = TERMINATION

SpecTasksFair ==
    /\ SpecTasks
    /\ WF_vars(CheckTermination)
    /\ WF_vars(EngineLogEvent("ok"))
    /\ WF_vars(\E k \in 1..MaxTasks, status \in {"200", "503", "raises"} :
                  CheckOllamaReturns(k, status))
    /\ WF_vars(\E k \in 1..MaxTasks, outcome \in {"status_200", "status_error", "timeout"} :
                  OllamaReturns(k, outcome))

=============================================================================
